---------------------------- MODULE Spec2Model ----------------------------
(***************************************************************************)
(* Model of the cabal agent-orchestration core: the Agent entity           *)
(* (agent.rs), the AgentHierarchy tree index (hierarchy.rs), the Session   *)
(* container (session.rs), the Orchestrator and its loop (orchestrator.rs) *)
(* and the client's GoblinChannel (channel.rs).                            *)
(*                                                                         *)
(* The specifications share the variables:                                 *)
(*   Spec      sequential Session::spawn_agent / terminate_agent calls     *)
(*   SpecHier  AgentHierarchy::add_agent / remove_agent on its own         *)
(*   SpecConc  Session::spawn_agent split at its lock releases, with a     *)
(*             concurrent reader of the same session                       *)
(*   SpecRace  two threads in Session::spawn_agent at once                 *)
(*   SpecLocks two threads in the methods of one Session, lock by lock     *)
(*   SpecLocksFair the same under a fair scheduler and fair locks          *)
(*   SpecAgent the methods of one Agent on its own                         *)
(*   SpecStatus two threads in Agent::set_status on one Agent              *)
(*   SpecDisp  the loop of Orchestrator::run, its client and both channels *)
(*   SpecLoop  the same loop under a fair scheduler                        *)
(*   SpecChan  try_recv and recv on the clones of one GoblinChannel        *)
(***************************************************************************)
EXTENDS Integers, Sequences, FiniteSets, TLC

(* ------------------------------ bounds -------------------------------- *)

\* Fresh agent ids handed out in a session whose calls run lock by lock.
MaxLockAgents == 2

\* set_status calls made by the concurrent callers of one Agent.
MaxStatusCalls == 3

\* Fresh agent ids handed out by AgentId::new() in a sequential session run.
MaxAgents == 3

\* Largest max_children cap drawn for a spawned agent's config.
MaxCap == 1

\* Ids the caller of a stand-alone AgentHierarchy picks from.
MaxHierIds == 3

\* add_agent calls, in one stand-alone hierarchy run, that name an id which
\* is a node already (each can lengthen a children list by a duplicate).
MaxReadds == 1

\* Fresh agent ids handed out in a concurrent session run.
MaxConcAgents == 3

\* Task ids a caller of a stand-alone Agent's assign_task, or the sender of
\* an Interrupt command, picks from.
MaxTasks == 1

\* Commands sent to the Orchestrator in one run.
MaxOps == 3

\* Events sent on the event channel of a GoblinChannel in one run.
MaxChanEvents == 2

\* Agent ids the sender of a SpawnAgent or TerminateAgent command picks from.
MaxOpIds == 2

\* Length the children list of a stand-alone Agent is grown to.
MaxAgentKids == 2

\* Total tokens the usage of a stand-alone Agent is grown to.
MaxTokens == 2

(* ----------------------------- encodings ------------------------------ *)

\* Option::None for an Option<AgentId>; agent ids are 1, 2, ...
None == 0

\* Option::None for AgentConfig.max_children (Some(m) is m itself).
NoCap == -1

AgentIds == 1..MaxAgents

\* The spawn policies drawn for a new agent: spawn disabled, spawn enabled
\* without a cap, spawn enabled with each cap 0..MaxCap.
Policies ==
    { [can_spawn |-> FALSE, max_children |-> NoCap],
      [can_spawn |-> FALSE, max_children |-> MaxCap] }
    \cup { [can_spawn |-> TRUE, max_children |-> m] : m \in {NoCap} \cup (0..MaxCap) }

\* An AgentConfig: its role and its spawn policy.
AgentConfig(role, can_spawn_flag, max_children) ==
    [ role |-> role, can_spawn |-> can_spawn_flag, max_children |-> max_children ]

\* The configs a caller of spawn_agent draws: role Worker, each policy.
Configs == { AgentConfig("Worker", p.can_spawn, p.max_children) : p \in Policies }

\* TokenUsage::default().
TokenUsage_default ==
    [ input_tokens |-> 0, output_tokens |-> 0, total_tokens |-> 0 ]

SubIds == {"sub"}

Reasons == {"requested"}

(* ------------------------------- Agent -------------------------------- *)

\* Agent::new: status Spawning, no children, no task, no usage.
Agent_new(config, parent_id) ==
    [ role         |-> config.role,
      parent_id    |-> parent_id,
      can_spawn    |-> config.can_spawn,
      max_children |-> config.max_children,
      children     |-> << >>,
      status       |-> "Spawning",
      current_task |-> None,
      usage        |-> TokenUsage_default ]

\* Mutant of add_child: the child id is never recorded.
add_child_dropped(agent, child_id) == agent

\* Mutant of add_child: the child id is inserted at the front.
add_child_front(agent, child_id) ==
    [agent EXCEPT !.children = << child_id >> \o @]

\* Agent::add_child: push at the end of the children list.
add_child(agent, child_id) ==
    [agent EXCEPT !.children = Append(@, child_id)]

\* Position of the first occurrence of x in seq, 0 when absent.
position(seq, x) ==
    IF \E i \in 1..Len(seq) : seq[i] = x
    THEN CHOOSE i \in 1..Len(seq) :
            seq[i] = x /\ \A j \in 1..(i - 1) : seq[j] # x
    ELSE 0

\* Vec::remove(pos): the list without its pos-th element.
vec_remove(seq, pos) ==
    SubSeq(seq, 1, pos - 1) \o SubSeq(seq, pos + 1, Len(seq))

\* Mutant of remove_child: the child id stays in the list.
remove_child_kept(agent, child_id) == agent

\* Agent::remove_child: removes the first occurrence of child_id, if any.
remove_child(agent, child_id) ==
    LET pos == position(agent.children, child_id)
    IN  IF pos # 0
        THEN [agent EXCEPT !.children = vec_remove(@, pos)]
        ELSE agent

\* Mutant of can_spawn: the config's can_spawn flag is not looked at.
can_spawn_unflagged(agent) ==
    IF agent.max_children # NoCap
    THEN Len(agent.children) < agent.max_children
    ELSE TRUE

\* Mutant of can_spawn: the cap test is off by one (<= for <).
can_spawn_inclusive(agent) ==
    IF ~agent.can_spawn THEN FALSE
    ELSE IF agent.max_children # NoCap
         THEN Len(agent.children) <= agent.max_children
         ELSE TRUE

\* Agent::can_spawn.
can_spawn(agent) ==
    IF ~agent.can_spawn THEN FALSE
    ELSE IF agent.max_children # NoCap
         THEN Len(agent.children) < agent.max_children
         ELSE TRUE

\* An event about an agent: its variant, the submission id it carries, the
\* agent, the parent (AgentSpawned) and the status, reason or content.
Event(type, sub_id, agent_id, parent_id, info) ==
    [ type |-> type, sub_id |-> sub_id, agent_id |-> agent_id,
      parent_id |-> parent_id, info |-> info, ref |-> None ]

\* An event about a session or a task: `ref` is the session id or task id.
RefEvent(type, sub_id, ref) ==
    [ type |-> type, sub_id |-> sub_id, agent_id |-> None,
      parent_id |-> None, info |-> "", ref |-> ref ]

\* Mutant of set_status: writing the status also clears the current task.
set_status_clears_task(agent, status) ==
    [agent EXCEPT !.status = status, !.current_task = None]

\* Agent::set_status: the status is written whatever the current one is;
\* then the AgentStatusChanged event is sent.
set_status(agent, status) == [agent EXCEPT !.status = status]

\* Agent::assign_task.
assign_task(agent, task_id) == [agent EXCEPT !.current_task = task_id]

\* Mutant of add_usage: the counters are overwritten, not added to.
add_usage_overwrites(agent, input, output) ==
    [agent EXCEPT !.usage = [ input_tokens  |-> input,
                              output_tokens |-> output,
                              total_tokens  |-> input + output ]]

\* Agent::add_usage.
add_usage(agent, input, output) ==
    LET input_tokens  == agent.usage.input_tokens + input
        output_tokens == agent.usage.output_tokens + output
    IN  [agent EXCEPT !.usage = [ input_tokens  |-> input_tokens,
                                  output_tokens |-> output_tokens,
                                  total_tokens  |-> input_tokens + output_tokens ]]

\* Mutant of terminate: the two events carry no submission id.
terminate_unattributed(agent_id, sub_id, reason) ==
    << Event("AgentStatusChanged", None, agent_id, None, "Terminated"),
       Event("AgentTerminated", None, agent_id, None, reason) >>

\* The two events of Agent::terminate: set_status(Terminated), AgentTerminated.
terminate(agent_id, sub_id, reason) ==
    << Event("AgentStatusChanged", sub_id, agent_id, None, "Terminated"),
       Event("AgentTerminated", sub_id, agent_id, None, reason) >>

(* --------------------------- AgentHierarchy --------------------------- *)

\* Mutant of map_remove: the entry is looked up but not removed.
map_remove_kept(m, k) == m

\* HashMap::remove / insert on a map modelled as a function.
map_remove(m, k) == [x \in (DOMAIN m) \ {k} |-> m[x]]

map_insert(m, k, v) == [x \in (DOMAIN m) \cup {k} |-> IF x = k THEN v ELSE m[x]]

\* Vec::retain(|id| id != agent_id).
RECURSIVE retain_ne(_, _)
retain_ne(seq, agent_id) ==
    IF seq = << >> THEN << >>
    ELSE IF Head(seq) = agent_id THEN retain_ne(Tail(seq), agent_id)
         ELSE << Head(seq) >> \o retain_ne(Tail(seq), agent_id)

\* AgentHierarchy::new.
AgentHierarchy_new == [ nodes |-> << >>, root |-> None ]

\* Mutant of add_agent: the new id is not pushed to its parent's children.
add_agent_unlinked(h, agent_id, parent_id) ==
    [ nodes |-> map_insert(h.nodes, agent_id,
                           [ parent |-> parent_id, children |-> << >> ]),
      root  |-> IF parent_id = None THEN agent_id ELSE h.root ]

\* AgentHierarchy::add_agent.
add_agent(h, agent_id, parent_id) ==
    LET root1  == IF parent_id = None THEN agent_id ELSE h.root
        nodes1 == IF parent_id # None /\ parent_id \in DOMAIN h.nodes
                  THEN [h.nodes EXCEPT ![parent_id].children = Append(@, agent_id)]
                  ELSE h.nodes
        node   == [ parent |-> parent_id, children |-> << >> ]
    IN  [ nodes |-> map_insert(nodes1, agent_id, node), root |-> root1 ]

\* Mutant of remove_agent: the root pointer is kept when the root is removed.
remove_agent_keeps_root(h, agent_id) ==
    IF agent_id \in DOMAIN h.nodes
    THEN LET node   == h.nodes[agent_id]
             nodes1 == map_remove(h.nodes, agent_id)
             nodes2 == IF node.parent # None /\ node.parent \in DOMAIN nodes1
                       THEN [nodes1 EXCEPT ![node.parent].children =
                                                retain_ne(@, agent_id)]
                       ELSE nodes1
         IN  [ nodes |-> nodes2, root |-> h.root ]
    ELSE h

\* Mutant of remove_agent: the node is not unlinked from its parent.
remove_agent_unlinked(h, agent_id) ==
    [ nodes |-> [x \in (DOMAIN h.nodes) \ {agent_id} |-> h.nodes[x]],
      root  |-> IF h.root = agent_id THEN None ELSE h.root ]

\* AgentHierarchy::remove_agent (the returned bool is agent_id \in DOMAIN h.nodes).
remove_agent(h, agent_id) ==
    IF agent_id \in DOMAIN h.nodes
    THEN LET node   == h.nodes[agent_id]
             nodes1 == map_remove(h.nodes, agent_id)
             nodes2 == IF node.parent # None /\ node.parent \in DOMAIN nodes1
                       THEN [nodes1 EXCEPT ![node.parent].children =
                                                retain_ne(@, agent_id)]
                       ELSE nodes1
             root1  == IF h.root = agent_id THEN None ELSE h.root
         IN  [ nodes |-> nodes2, root |-> root1 ]
    ELSE h

\* AgentHierarchy::parent: None for an unknown id.
parent(h, agent_id) ==
    IF agent_id \in DOMAIN h.nodes THEN h.nodes[agent_id].parent ELSE None

\* AgentHierarchy::children: empty for an unknown id.
children(h, agent_id) ==
    IF agent_id \in DOMAIN h.nodes THEN h.nodes[agent_id].children ELSE << >>

\* The value standing for a depth call that never returns.
Diverges == -1

\* The loop of AgentHierarchy::depth: `current` walks the parent links from
\* the id, `depth` counts the links to a Some parent; the loop ends at a
\* None parent or at an id that is no node. `seen` is the nodes visited so
\* far: the loop keeps no such set, and when it comes back to a visited node
\* it repeats the same steps for ever.
RECURSIVE depth_walk(_, _, _, _)
depth_walk(h, current, depth, seen) ==
    IF current = None THEN depth
    ELSE IF current \notin DOMAIN h.nodes THEN depth
    ELSE IF current \in seen THEN Diverges
    ELSE LET next == h.nodes[current].parent
         IN  depth_walk(h, next, IF next # None THEN depth + 1 ELSE depth,
                        seen \cup {current})

\* AgentHierarchy::depth.
depth(h, agent_id) == depth_walk(h, agent_id, 0, {})

(* ------------------------------ Session ------------------------------- *)

\* Session::new. A session is threaded through a call as a record: the agent
\* table, the hierarchy, the events sent during the call, whether the
\* receiver of event_tx is alive, the next fresh AgentId and the call's
\* return value.
Session_new ==
    [ agents |-> << >>, hierarchy |-> AgentHierarchy_new,
      events |-> << >>, rx_alive |-> TRUE, next_id |-> 1, ret |-> "Ok" ]

\* Mutant of send: the Err of a send to a dropped receiver is returned.
send_or_fail(s, event) ==
    IF s.rx_alive THEN [s EXCEPT !.events = Append(@, event)]
    ELSE [s EXCEPT !.ret = "ChannelError"]

\* `let _ = event_tx.send(event)`: the event joins the stream when the
\* receiver is alive; when it has been dropped send returns an Err, which
\* the caller discards, and the event is lost.
send(s, event) ==
    IF s.rx_alive THEN [s EXCEPT !.events = Append(@, event)] ELSE s

\* Session::spawn_agent.
spawn_agent(s, config, parent_id, sub_id) ==
    IF parent_id # None /\ parent_id \notin DOMAIN s.agents
    THEN [s EXCEPT !.ret = "AgentNotFound"]
    ELSE IF parent_id # None /\ ~can_spawn(s.agents[parent_id])
    THEN [s EXCEPT !.ret = "SpawnDenied"]
    ELSE LET agent_id == s.next_id
             agents1  == map_insert(s.agents, agent_id, Agent_new(config, parent_id))
             hier1    == add_agent(s.hierarchy, agent_id, parent_id)
             agents2  == IF parent_id # None /\ parent_id \in DOMAIN agents1
                         THEN [agents1 EXCEPT ![parent_id] = add_child(@, agent_id)]
                         ELSE agents1
         IN  send([s EXCEPT !.agents = agents2, !.hierarchy = hier1,
                            !.next_id = agent_id + 1, !.ret = "Ok"],
                  Event("AgentSpawned", sub_id, agent_id, parent_id, ""))

RECURSIVE terminate_agent(_, _, _, _)
RECURSIVE terminate_children(_, _, _)

\* Mutant of terminate_agent: the agent's own events are sent before its
\* children are terminated.
terminate_agent_parent_first(s, agent_id, reason, sub_id) ==
    IF agent_id \notin DOMAIN s.agents
    THEN [s EXCEPT !.ret = "AgentNotFound"]
    ELSE LET agent == s.agents[agent_id]
             s1 == [s EXCEPT !.agents = map_remove(@, agent_id)]
             s2 == IF agent.parent_id # None /\ agent.parent_id \in DOMAIN s1.agents
                   THEN [s1 EXCEPT !.agents[agent.parent_id] =
                                        remove_child(@, agent_id)]
                   ELSE s1
             sent == terminate(agent_id, sub_id, reason)
             s3 == terminate_children(send(send(s2, sent[1]), sent[2]),
                                      agent.children, sub_id)
         IN  [s3 EXCEPT !.hierarchy = remove_agent(@, agent_id), !.ret = "Ok"]

\* Mutant of terminate_children: the cascade is skipped.
terminate_children_skipped(s, kids, sub_id) == s

\* The loop of Session::terminate_agent over agent.children(): each child is
\* terminated with the fixed reason, its result dropped.
terminate_children(s, kids, sub_id) ==
    IF kids = << >> THEN s
    ELSE terminate_children(
            terminate_agent(s, Head(kids), "Parent terminated", sub_id),
            Tail(kids), sub_id)

\* Session::terminate_agent.
terminate_agent(s, agent_id, reason, sub_id) ==
    IF agent_id \notin DOMAIN s.agents
    THEN [s EXCEPT !.ret = "AgentNotFound"]
    ELSE LET agent == s.agents[agent_id]
             s1 == [s EXCEPT !.agents = map_remove(@, agent_id)]
             s2 == IF agent.parent_id # None /\ agent.parent_id \in DOMAIN s1.agents
                   THEN [s1 EXCEPT !.agents[agent.parent_id] =
                                        remove_child(@, agent_id)]
                   ELSE s1
             s3 == terminate_children(s2, agent.children, sub_id)
             s4 == [s3 EXCEPT !.hierarchy = remove_agent(@, agent_id)]
             sent == terminate(agent_id, sub_id, reason)
         IN  [send(send(s4, sent[1]), sent[2]) EXCEPT !.ret = "Ok"]

(* ---------------------------- Orchestrator --------------------------- *)

\* The Orchestrator is threaded through the handling of one command as a
\* record `o`: sessions, the next fresh SessionId, AgentId and TaskId, the
\* events sent while handling, whether the event receiver is alive, and the
\* handler's return value. A session in `sessions` is its config, agent
\* table, hierarchy and current task.

\* The session's part of `o`, as Session's methods take it ...
SessionOf(o, session_id) ==
    [ agents    |-> o.sessions[session_id].agents,
      hierarchy |-> o.sessions[session_id].hierarchy,
      events    |-> o.events,
      rx_alive  |-> o.rx_alive,
      next_id   |-> o.next_agent,
      ret       |-> "Ok" ]

\* ... and `o` after a Session method has returned s.
WithSession(o, session_id, s) ==
    [o EXCEPT !.sessions[session_id].agents = s.agents,
              !.sessions[session_id].hierarchy = s.hierarchy,
              !.events = s.events,
              !.next_agent = s.next_id,
              !.ret = s.ret]

\* The outcomes of `sessions.read().values().next()`: None for an empty
\* map, else the session the map's iteration happens to yield first.
FirstSessions(sessions) ==
    IF DOMAIN sessions = {} THEN {None} ELSE DOMAIN sessions

\* Session::orchestrator: the agent at the hierarchy's root, None without.
orchestrator(session) ==
    IF session.hierarchy.root # None /\ session.hierarchy.root \in DOMAIN session.agents
    THEN session.hierarchy.root
    ELSE None

\* Mutant of configure_session: the root agent gets no child cap.
configure_session_uncapped(o, max_parallel_agents, sub_id) ==
    LET session_id == o.next_session
        session == [ max_parallel_agents |-> max_parallel_agents,
                     agents |-> << >>, hierarchy |-> AgentHierarchy_new,
                     current_task |-> None ]
        o1 == [o EXCEPT !.sessions = map_insert(@, session_id, session),
                        !.next_session = session_id + 1]
        s  == spawn_agent(SessionOf(o1, session_id),
                          AgentConfig("Orchestrator", TRUE, NoCap), None, sub_id)
    IN  [send(WithSession(o1, session_id, s),
              RefEvent("SessionConfigured", sub_id, session_id)) EXCEPT !.ret = "Ok"]

\* Orchestrator::configure_session.
configure_session(o, max_parallel_agents, sub_id) ==
    LET session_id == o.next_session
        session == [ max_parallel_agents |-> max_parallel_agents,
                     agents |-> << >>, hierarchy |-> AgentHierarchy_new,
                     current_task |-> None ]
        o1 == [o EXCEPT !.sessions = map_insert(@, session_id, session),
                        !.next_session = session_id + 1]
        orchestrator_config == AgentConfig("Orchestrator", TRUE, max_parallel_agents)
        s  == spawn_agent(SessionOf(o1, session_id), orchestrator_config, None, sub_id)
        o2 == WithSession(o1, session_id, s)
    IN  IF s.ret # "Ok" THEN o2
        ELSE [send(o2, RefEvent("SessionConfigured", sub_id, session_id))
                EXCEPT !.ret = "Ok"]

\* Mutant of handle_user_input: the task is not recorded as current.
handle_user_input_untracked(o, pick, sub_id) ==
    IF pick = None THEN [o EXCEPT !.ret = "NoActiveSession"]
    ELSE LET task_id == o.next_task
             o1 == [o EXCEPT !.next_task = task_id + 1]
             o2 == send(o1, RefEvent("TaskStarted", sub_id, task_id))
             agent_id == orchestrator(o2.sessions[pick])
         IN  IF agent_id = None THEN [o2 EXCEPT !.ret = "NoOrchestrator"]
             ELSE [send(o2, Event("AgentMessage", sub_id, agent_id, None,
                                  "Received task")) EXCEPT !.ret = "Ok"]

\* Orchestrator::handle_user_input; `pick` is the session values().next()
\* yielded. The task is set and TaskStarted sent before the orchestrator
\* agent is looked up.
handle_user_input(o, pick, sub_id) ==
    IF pick = None THEN [o EXCEPT !.ret = "NoActiveSession"]
    ELSE LET task_id == o.next_task
             o1 == [o EXCEPT !.next_task = task_id + 1,
                             !.sessions[pick].current_task = task_id]
             o2 == send(o1, RefEvent("TaskStarted", sub_id, task_id))
             agent_id == orchestrator(o2.sessions[pick])
         IN  IF agent_id = None THEN [o2 EXCEPT !.ret = "NoOrchestrator"]
             ELSE [send(o2, Event("AgentMessage", sub_id, agent_id, None,
                                  "Received task")) EXCEPT !.ret = "Ok"]

\* Mutant of handle_interrupt: the current task is not cleared.
handle_interrupt_kept(o, pick, task_id, sub_id) ==
    IF pick = None THEN [o EXCEPT !.ret = "NoActiveSession"]
    ELSE LET current_task == IF task_id # None THEN task_id
                             ELSE o.sessions[pick].current_task
         IN  IF current_task # None
             THEN [send(o, RefEvent("TaskInterrupted", sub_id, current_task))
                     EXCEPT !.ret = "Ok"]
             ELSE [o EXCEPT !.ret = "Ok"]

\* Orchestrator::handle_interrupt.
handle_interrupt(o, pick, task_id, sub_id) ==
    IF pick = None THEN [o EXCEPT !.ret = "NoActiveSession"]
    ELSE LET current_task == IF task_id # None THEN task_id
                             ELSE o.sessions[pick].current_task
         IN  IF current_task # None
             THEN [send(o, RefEvent("TaskInterrupted", sub_id, current_task))
                     EXCEPT !.sessions[pick].current_task = None, !.ret = "Ok"]
             ELSE [o EXCEPT !.ret = "Ok"]

\* Orchestrator::spawn_agent.
Orchestrator_spawn_agent(o, pick, config, parent_id, sub_id) ==
    IF pick = None THEN [o EXCEPT !.ret = "NoActiveSession"]
    ELSE WithSession(o, pick, spawn_agent(SessionOf(o, pick), config, parent_id, sub_id))

\* Option::None for the Option<String> reason of a TerminateAgent command,
\* and Option::unwrap_or_default on it.
NoReason == "None"

unwrap_or_default(reason) == IF reason = NoReason THEN "" ELSE reason

\* Orchestrator::terminate_agent.
Orchestrator_terminate_agent(o, pick, agent_id, reason, sub_id) ==
    IF pick = None THEN [o EXCEPT !.ret = "NoActiveSession"]
    ELSE WithSession(o, pick,
                     terminate_agent(SessionOf(o, pick), agent_id,
                                     unwrap_or_default(reason), sub_id))

\* Mutant of handle_exec_approval: the approval ends the current task of
\* every session.
handle_exec_approval_clears(o, sub_id) ==
    [o EXCEPT !.sessions = [x \in DOMAIN @ |-> [@[x] EXCEPT !.current_task = None]],
              !.ret = "Ok"]

\* Orchestrator::handle_exec_approval: a log line.
handle_exec_approval(o, sub_id) == [o EXCEPT !.ret = "Ok"]

\* A command: its variant, its submission id and the variant's fields (the
\* fields of the other variants at their default).
Op(op, max_parallel_agents, task_id, config, parent_id, agent_id, reason) ==
    [ op |-> op, sub_id |-> None, max_parallel_agents |-> max_parallel_agents,
      task_id |-> task_id, config |-> config, parent_id |-> parent_id,
      agent_id |-> agent_id, reason |-> reason ]

Op_default(op) == Op(op, 0, None, AgentConfig("Worker", TRUE, NoCap), None, None, NoReason)

\* Mutant of loop_continues: the loop ends at the first Err.
loop_continues_while_ok(ret) == ret = "Ok"

\* The body of the loop of run after handle_op returned: an Err is logged,
\* and the loop goes on to the next recv() either way.
loop_continues(ret) == TRUE

\* Orchestrator::handle_op: the match on the command; a handler's error is
\* returned, every other command is logged and returns Ok.
handle_op(o, pick, op) ==
    CASE op.op = "ConfigureSession" ->
            configure_session(o, op.max_parallel_agents, op.sub_id)
      [] op.op = "UserInput" -> handle_user_input(o, pick, op.sub_id)
      [] op.op = "Interrupt" -> handle_interrupt(o, pick, op.task_id, op.sub_id)
      [] op.op = "SpawnAgent" ->
            Orchestrator_spawn_agent(o, pick, op.config, op.parent_id, op.sub_id)
      [] op.op = "TerminateAgent" ->
            Orchestrator_terminate_agent(o, pick, op.agent_id, op.reason, op.sub_id)
      [] op.op = "ExecApproval" -> handle_exec_approval(o, op.sub_id)
      [] OTHER -> [o EXCEPT !.ret = "Ok"]

(* ------------------------------- state -------------------------------- *)

VARIABLES
    agents,     \* Session.agents: AgentId -> Agent
    hierarchy,  \* Session.hierarchy: [nodes, root]
    next_id,    \* the next id AgentId::new() returns
    events,     \* the events sent on event_tx: in Spec those of the latest
                \* call, in SpecConc the whole stream
    result,     \* the latest call: its operation, arguments and return value
    readded,    \* history: the add_agent calls so far whose id was a node
    calls,      \* SpecConc, SpecRace: each thread's spawn_agent call in progress
    reader,     \* SpecConc: the concurrent reader's progress and what it saw
    disp,       \* SpecDisp: the Orchestrator, its two channels and its client
    chan,       \* SpecChan: the event receiver of a GoblinChannel and its users
    given,      \* history: the sums of the arguments of the add_usage calls
    th,         \* SpecStatus, SpecLocks: each thread's call in progress
    locks       \* SpecLocks: the RwLocks of the session and of its agents

vars == << agents, hierarchy, next_id, events, result, readded, calls, reader,
           disp, chan, given, th, locks >>

\* A call as its caller sees it: the operation, the agent id it is about
\* (for spawn_agent the id of the new agent, None when it failed), the parent
\* id it was given, and its return value.
Call(op, agent_id, parent_id, res) ==
    [ op |-> op, agent_id |-> agent_id, parent_id |-> parent_id, res |-> res ]

\* The threads that call into one Agent or one Session at the same time.
Threads == {"t1", "t2"}

\* A thread outside any call: the call it made last and what that returned.
ThreadIdle ==
    [ op |-> "none", pc |-> "idle", config |-> AgentConfig("Worker", FALSE, NoCap),
      parent_id |-> None, agent_id |-> None, status |-> "", reason |-> "",
      sub_id |-> "", stack |-> << >>, parked |-> FALSE, ret |-> "" ]

\* A parking_lot RwLock: the threads that hold it, each as a reader ("r")
\* or as the writer ("w"), and the threads parked on it in arrival order.
\* The lock is task-fair: a reader does not overtake a parked writer.
RwLock_new == [ holders |-> {}, queue |-> << >> ]

\* The locks by name: Session.agents, Session.hierarchy, and the children
\* lock of each Agent.
AgentsLock == << "agents", 0 >>

HierarchyLock == << "hierarchy", 0 >>

ChildrenLock(agent_id) == << "children", agent_id >>

NoLock == << "none", 0 >>

LockNames == {AgentsLock, HierarchyLock} \cup { ChildrenLock(a) : a \in AgentIds }

\* Every lock free, as Session::new and Agent::new make them.
Unlocked == [l \in LockNames |-> RwLock_new]

\* No add_usage call made yet.
NothingGiven == [ input |-> 0, output |-> 0 ]

ConcThreads == {"t1"}

Idle == [ pc |-> "idle", config |-> AgentConfig("Worker", FALSE, NoCap),
          parent_id |-> None, agent_id |-> None, sub_id |-> "", ret |-> "" ]

\* Orchestrator::with_channel: no session, nothing sent on either channel,
\* both channels open, the run loop not yet returned. next_session,
\* next_agent and next_task are what SessionId::new(), AgentId::new() and
\* TaskId::new() return next; `sent` counts the commands sent, which also
\* numbers their submission ids; `errors` counts the commands whose Err the
\* loop has logged; `last` is the command handled last: its variant, the
\* command, the session values().next() yielded, the handler's return value
\* and the events it put on the stream.
Orchestrator_new ==
    [ sessions |-> << >>, next_session |-> 1, next_agent |-> 1, next_task |-> 1,
      op_queue |-> << >>, sent |-> 0, tx_open |-> TRUE,
      stream |-> << >>, rx_alive |-> TRUE, running |-> TRUE, errors |-> 0,
      last |-> [ op |-> "none", cmd |-> Op_default("none"), pick |-> None,
                 ret |-> "Ok", events |-> << >> ] ]

\* GoblinChannel::new, seen from the event side: the receiver's mutex free,
\* no event in the channel, the sender alive, no call in progress.
ChanClients == {"c1", "c2"}

ClientIdle == [ pc |-> "idle", got |-> None ]

GoblinChannel_new ==
    [ lock |-> "free", queue |-> << >>, tx_alive |-> TRUE, produced |-> 0,
      clients |-> [c \in ChanClients |-> ClientIdle] ]

ReaderIdle ==
    [ pc |-> "idle", id |-> None, parent_id |-> None,
      in_hierarchy |-> FALSE, in_parent |-> FALSE ]

\* The state after Session::new (and AgentHierarchy::new), no call made.
Init ==
    /\ agents = Session_new.agents
    /\ hierarchy = Session_new.hierarchy
    /\ next_id = Session_new.next_id
    /\ events = Session_new.events
    /\ result = Call("new", None, None, "Ok")
    /\ readded = 0
    /\ calls = [t \in ConcThreads |-> Idle]
    /\ reader = ReaderIdle
    /\ disp = Orchestrator_new
    /\ chan = GoblinChannel_new
    /\ given = NothingGiven
    /\ th = [t \in Threads |-> ThreadIdle]
    /\ locks = Unlocked

\* The session as a call finds it: no event of this call sent yet.
Current ==
    [ agents |-> agents, hierarchy |-> hierarchy, events |-> << >>, rx_alive |-> TRUE,
      next_id |-> next_id, ret |-> "Ok" ]

Commit(s) ==
    /\ agents' = s.agents
    /\ hierarchy' = s.hierarchy
    /\ next_id' = s.next_id
    /\ events' = s.events
    /\ UNCHANGED << readded, calls, reader, disp, chan, given, th, locks >>

\* One complete Session::spawn_agent call.
SpawnAgent ==
    \E config \in Configs, parent_id \in {None} \cup AgentIds, sub_id \in SubIds :
        LET s == spawn_agent(Current, config, parent_id, sub_id)
        IN  /\ s.ret = "Ok" => next_id <= MaxAgents
            /\ Commit(s)
            /\ result' = Call("spawn_agent",
                              IF s.ret = "Ok" THEN next_id ELSE None,
                              parent_id, s.ret)

\* One complete Session::terminate_agent call.
TerminateAgent ==
    \E agent_id \in AgentIds, reason \in Reasons, sub_id \in SubIds :
        LET s == terminate_agent(Current, agent_id, reason, sub_id)
        IN  /\ Commit(s)
            /\ result' = Call("terminate_agent", agent_id, None, s.ret)

Next == SpawnAgent \/ TerminateAgent

Spec == Init /\ [][Next]_vars

(* ------------------- AgentHierarchy on its own (SpecHier) ------------- *)

HierIds == 1..MaxHierIds

\* One AgentHierarchy::add_agent call, with any id and any parent id: ids
\* that are nodes already, parents that are not nodes, the id itself.
AddAgent ==
    \E agent_id \in HierIds, parent_id \in {None} \cup HierIds :
        /\ agent_id \in DOMAIN hierarchy.nodes => readded < MaxReadds
        /\ hierarchy' = add_agent(hierarchy, agent_id, parent_id)
        /\ readded' = IF agent_id \in DOMAIN hierarchy.nodes
                      THEN readded + 1 ELSE readded
        /\ result' = Call("add_agent", agent_id, None, "Ok")
        /\ UNCHANGED << agents, next_id, events, calls, reader, disp, chan, given, th, locks >>

\* One AgentHierarchy::remove_agent call.
RemoveAgent ==
    \E agent_id \in HierIds :
        /\ hierarchy' = remove_agent(hierarchy, agent_id)
        /\ result' = Call("remove_agent", agent_id, None,
                          IF agent_id \in DOMAIN hierarchy.nodes
                          THEN "true" ELSE "false")
        /\ UNCHANGED << agents, next_id, events, readded, calls, reader, disp, chan, given, th, locks >>

NextHier == AddAgent \/ RemoveAgent

SpecHier == Init /\ [][NextHier]_vars

(* ------------- spawn_agent with a concurrent reader (SpecConc) -------- *)

ConcIds == 1..MaxConcAgents

\* session.rs 66-79: the parent check, under agents.read().
SpawnCheck(t) ==
    \E config \in Configs, parent_id \in {None} \cup ConcIds, sub_id \in SubIds :
        /\ calls[t].pc = "idle"
        /\ next_id <= MaxConcAgents
        /\ IF parent_id # None /\ parent_id \notin DOMAIN agents
           THEN calls' = [calls EXCEPT ![t] = [Idle EXCEPT !.ret = "AgentNotFound"]]
           ELSE IF parent_id # None /\ ~can_spawn(agents[parent_id])
           THEN calls' = [calls EXCEPT ![t] = [Idle EXCEPT !.ret = "SpawnDenied"]]
           ELSE calls' = [calls EXCEPT ![t] =
                            [ pc |-> "insert", config |-> config,
                              parent_id |-> parent_id, agent_id |-> None,
                              sub_id |-> sub_id, ret |-> "" ]]
        /\ UNCHANGED << agents, hierarchy, next_id, events, result, readded, reader, disp, chan, given, th, locks >>

\* session.rs 81-92: Agent::new, then the insert under agents.write().
SpawnInsert(t) ==
    /\ calls[t].pc = "insert"
    /\ agents' = map_insert(agents, next_id,
                            Agent_new(calls[t].config, calls[t].parent_id))
    /\ next_id' = next_id + 1
    /\ calls' = [calls EXCEPT ![t].pc = "hierarchy", ![t].agent_id = next_id]
    /\ UNCHANGED << hierarchy, events, result, readded, reader, disp, chan, given, th, locks >>

\* session.rs 94-98: add_agent under hierarchy.write().
SpawnHierarchy(t) ==
    /\ calls[t].pc = "hierarchy"
    /\ hierarchy' = add_agent(hierarchy, calls[t].agent_id, calls[t].parent_id)
    /\ calls' = [calls EXCEPT ![t].pc = "link"]
    /\ UNCHANGED << agents, next_id, events, result, readded, reader, disp, chan, given, th, locks >>

\* session.rs 100-105: add_child on the parent, under agents.read() and the
\* parent's children.write().
SpawnLink(t) ==
    /\ calls[t].pc = "link"
    /\ agents' = IF calls[t].parent_id # None /\ calls[t].parent_id \in DOMAIN agents
                 THEN [agents EXCEPT ![calls[t].parent_id] =
                                        add_child(@, calls[t].agent_id)]
                 ELSE agents
    /\ calls' = [calls EXCEPT ![t].pc = "emit"]
    /\ UNCHANGED << hierarchy, next_id, events, result, readded, reader, disp, chan, given, th, locks >>

\* session.rs 107-123: the AgentSpawned event, then the return of the handle.
SpawnEmit(t) ==
    /\ calls[t].pc = "emit"
    /\ events' = Append(events, Event("AgentSpawned", calls[t].sub_id,
                                      calls[t].agent_id, calls[t].parent_id, ""))
    /\ calls' = [calls EXCEPT ![t] = [Idle EXCEPT !.ret = "Ok"]]
    /\ UNCHANGED << agents, hierarchy, next_id, result, readded, reader, disp, chan, given, th, locks >>

\* The reader: get_agent(id) finds the agent in the table ...
ReadAgent ==
    \E id \in DOMAIN agents :
        /\ reader.pc = "idle"
        /\ reader' = [ReaderIdle EXCEPT !.pc = "agent", !.id = id,
                                        !.parent_id = agents[id].parent_id]
        /\ UNCHANGED << agents, hierarchy, next_id, events, result, readded, calls, disp, chan, given, th, locks >>

\* ... then looks it up in the hierarchy, under hierarchy.read() ...
ReadHierarchy ==
    /\ reader.pc = "agent"
    /\ reader' = [reader EXCEPT !.pc = "hierarchy",
                                !.in_hierarchy = (reader.id \in DOMAIN hierarchy.nodes)]
    /\ UNCHANGED << agents, hierarchy, next_id, events, result, readded, calls, disp, chan, given, th, locks >>

\* ... then reads the children() of its parent, if it has one in the table.
ReadParentChildren ==
    /\ reader.pc = "hierarchy"
    /\ reader' = [reader EXCEPT !.pc = "done",
                    !.in_parent =
                        \/ reader.parent_id = None
                        \/ reader.parent_id \notin DOMAIN agents
                        \/ \E i \in 1..Len(agents[reader.parent_id].children) :
                              agents[reader.parent_id].children[i] = reader.id]
    /\ UNCHANGED << agents, hierarchy, next_id, events, result, readded, calls, disp, chan, given, th, locks >>

ReadDone ==
    /\ reader.pc = "done"
    /\ reader' = ReaderIdle
    /\ UNCHANGED << agents, hierarchy, next_id, events, result, readded, calls, disp, chan, given, th, locks >>

NextConc ==
    \/ \E t \in ConcThreads :
          \/ SpawnCheck(t)
          \/ SpawnInsert(t)
          \/ SpawnHierarchy(t)
          \/ SpawnLink(t)
          \/ SpawnEmit(t)
    \/ ReadAgent
    \/ ReadHierarchy
    \/ ReadParentChildren
    \/ ReadDone

SpecConc == Init /\ [][NextConc]_vars

(* --- concurrent Session calls, lock by lock (SpecLocks, SpecLocksFair) -- *)

LockIds == 1..MaxLockAgents

\* RwLock::read() / write() when the lock cannot be had at once, and as the
\* first half of having it: the thread joins the lock's queue.
park(ls, l, t, mode) == [ls EXCEPT ![l].queue = Append(@, << t, mode >>)]

\* The thread is first in the queue and the lock can be given to it: to a
\* writer when nobody holds it, to a reader when no writer holds it.
granted(ls, l, t) ==
    /\ ls[l].queue # << >>
    /\ Head(ls[l].queue)[1] = t
    /\ IF Head(ls[l].queue)[2] = "w"
       THEN ls[l].holders = {}
       ELSE \A h \in ls[l].holders : h[2] = "r"

\* The first thread of the queue gets the lock and keeps it.
take(ls, l) ==
    [ls EXCEPT ![l].holders = @ \cup {Head(ls[l].queue)}, ![l].queue = Tail(@)]

\* The first thread of the queue gets the lock and has dropped the guard
\* by the end of the step.
pass(ls, l) == [ls EXCEPT ![l].queue = Tail(@)]

\* Mutant of release: the guard is never dropped.
release_kept(ls, l, t) == ls

\* The guard of thread t on lock l is dropped.
release(ls, l, t) == [ls EXCEPT ![l].holders = { h \in @ : h[1] # t }]

\* The lock the call of a thread takes next, and how, by its position.
Needs(c) ==
    CASE c.pc \in {"check", "link", "unlink", "tree_agents", "root_agent", "get"} ->
            [ lock |-> AgentsLock, mode |-> "r" ]
      [] c.pc \in {"insert", "remove"} -> [ lock |-> AgentsLock, mode |-> "w" ]
      [] c.pc \in {"hierarchy", "term_hierarchy"} ->
            [ lock |-> HierarchyLock, mode |-> "w" ]
      [] c.pc \in {"tree", "root"} -> [ lock |-> HierarchyLock, mode |-> "r" ]
      [] c.pc = "check_children" -> [ lock |-> ChildrenLock(c.parent_id), mode |-> "r" ]
      [] c.pc \in {"link_child", "unlink_child"} ->
            [ lock |-> ChildrenLock(c.parent_id), mode |-> "w" ]
      [] OTHER -> [ lock |-> NoLock, mode |-> "" ]

\* The call moves on to its next position, whose lock it has not asked for.
Goto(c, pc) == [c EXCEPT !.pc = pc, !.parked = FALSE]

\* The call returns: the thread is outside any call, with what it returned.
Return(c, ret) == [ThreadIdle EXCEPT !.ret = ret]

\* The thread is at a position whose lock it has asked for and now gets.
At(t, pc) ==
    /\ th[t].pc = pc
    /\ th[t].parked
    /\ granted(locks, Needs(th[t]).lock, t)

\* What the steps of SpecLocks leave alone.
LockFrame == UNCHANGED << result, readded, calls, reader, disp, chan, given >>

\* The thread asks for the lock of its position.
Park(t) ==
    /\ th[t].pc # "idle"
    /\ ~th[t].parked
    /\ Needs(th[t]).lock # NoLock
    /\ locks' = park(locks, Needs(th[t]).lock, t, Needs(th[t]).mode)
    /\ th' = [th EXCEPT ![t].parked = TRUE]
    /\ UNCHANGED << agents, hierarchy, next_id, events >>
    /\ LockFrame

\* A call of Session::spawn_agent begins: with a parent id it heads for the
\* check of lines 66-79, without one for the insert.
LockSpawnCall(t) ==
    \E config \in Configs, parent_id \in {None} \cup LockIds, sub_id \in SubIds :
        /\ th[t].pc = "idle"
        /\ next_id + Cardinality({ u \in Threads :
                                      th[u].pc \in {"check", "check_children", "insert"} })
              <= MaxLockAgents
        /\ th' = [th EXCEPT ![t] =
                    [ThreadIdle EXCEPT !.op = "spawn_agent", !.config = config,
                                       !.parent_id = parent_id, !.sub_id = sub_id,
                                       !.pc = IF parent_id = None THEN "insert"
                                              ELSE "check"]]
        /\ UNCHANGED << agents, hierarchy, next_id, events, locks >>
        /\ LockFrame

\* session.rs 67-79 under agents.read(): the parent is looked up; can_spawn
\* returns without the children lock unless the parent has a cap
\* (agent.rs 138-148).
LockSpawnCheck(t) ==
    /\ At(t, "check")
    /\ LET pid == th[t].parent_id
       IN  IF pid \notin DOMAIN agents
           THEN /\ locks' = pass(locks, AgentsLock)
                /\ th' = [th EXCEPT ![t] = Return(@, "AgentNotFound")]
           ELSE IF ~agents[pid].can_spawn
           THEN /\ locks' = pass(locks, AgentsLock)
                /\ th' = [th EXCEPT ![t] = Return(@, "SpawnDenied")]
           ELSE IF agents[pid].max_children = NoCap
           THEN /\ locks' = pass(locks, AgentsLock)
                /\ th' = [th EXCEPT ![t] = Goto(@, "insert")]
           ELSE /\ locks' = take(locks, AgentsLock)
                /\ th' = [th EXCEPT ![t] = Goto(@, "check_children")]
    /\ UNCHANGED << agents, hierarchy, next_id, events >>
    /\ LockFrame

\* agent.rs 143-145 under the parent's children.read(), agents.read() still
\* held: the cap test; both guards are dropped at line 79.
LockSpawnCheckChildren(t) ==
    /\ At(t, "check_children")
    /\ locks' = release(pass(locks, ChildrenLock(th[t].parent_id)), AgentsLock, t)
    /\ th' = [th EXCEPT ![t] = IF can_spawn(agents[th[t].parent_id])
                               THEN Goto(@, "insert")
                               ELSE Return(@, "SpawnDenied")]
    /\ UNCHANGED << agents, hierarchy, next_id, events >>
    /\ LockFrame

\* session.rs 81-92: Agent::new, then the insert under agents.write().
LockSpawnInsert(t) ==
    /\ At(t, "insert")
    /\ agents' = map_insert(agents, next_id, Agent_new(th[t].config, th[t].parent_id))
    /\ next_id' = next_id + 1
    /\ locks' = pass(locks, AgentsLock)
    /\ th' = [th EXCEPT ![t] = [Goto(@, "hierarchy") EXCEPT !.agent_id = next_id,
                                                            !.config = ThreadIdle.config]]
    /\ UNCHANGED << hierarchy, events >>
    /\ LockFrame

\* session.rs 94-98: add_agent under hierarchy.write().
LockSpawnHierarchy(t) ==
    /\ At(t, "hierarchy")
    /\ hierarchy' = add_agent(hierarchy, th[t].agent_id, th[t].parent_id)
    /\ locks' = pass(locks, HierarchyLock)
    /\ th' = [th EXCEPT ![t] = Goto(@, IF th[t].parent_id = None THEN "emit" ELSE "link")]
    /\ UNCHANGED << agents, next_id, events >>
    /\ LockFrame

\* session.rs 101-102 under agents.read(): the parent is looked up again.
LockSpawnLink(t) ==
    /\ At(t, "link")
    /\ IF th[t].parent_id \in DOMAIN agents
       THEN /\ locks' = take(locks, AgentsLock)
            /\ th' = [th EXCEPT ![t] = Goto(@, "link_child")]
       ELSE /\ locks' = pass(locks, AgentsLock)
            /\ th' = [th EXCEPT ![t] = Goto(@, "emit")]
    /\ UNCHANGED << agents, hierarchy, next_id, events >>
    /\ LockFrame

\* session.rs 103: add_child under the parent's children.write(),
\* agents.read() still held; both guards are dropped at line 105.
LockSpawnLinkChild(t) ==
    /\ At(t, "link_child")
    /\ agents' = [agents EXCEPT ![th[t].parent_id] = add_child(@, th[t].agent_id)]
    /\ locks' = release(pass(locks, ChildrenLock(th[t].parent_id)), AgentsLock, t)
    /\ th' = [th EXCEPT ![t] = Goto(@, "emit")]
    /\ UNCHANGED << hierarchy, next_id, events >>
    /\ LockFrame

\* session.rs 107-123: the AgentSpawned event, then the return of the handle.
LockSpawnEmit(t) ==
    /\ th[t].pc = "emit"
    /\ events' = Append(events, Event("AgentSpawned", th[t].sub_id, th[t].agent_id,
                                      th[t].parent_id, ""))
    /\ th' = [th EXCEPT ![t] = Return(@, "Ok")]
    /\ UNCHANGED << agents, hierarchy, next_id, locks >>
    /\ LockFrame

\* A call of Session::terminate_agent begins.
LockTermCall(t) ==
    \E agent_id \in LockIds, reason \in Reasons, sub_id \in SubIds :
        /\ th[t].pc = "idle"
        /\ th' = [th EXCEPT ![t] =
                    [ThreadIdle EXCEPT !.op = "terminate_agent", !.agent_id = agent_id,
                                       !.reason = reason, !.sub_id = sub_id,
                                       !.pc = "remove"]]
        /\ UNCHANGED << agents, hierarchy, next_id, events, locks >>
        /\ LockFrame

\* The frame of a terminate_agent call that has removed its agent: the id,
\* the removed Agent's parent and children, and the reason of the call.
TermFrame(agent_id, agent, reason) ==
    [ id |-> agent_id, parent_id |-> agent.parent_id, kids |-> agent.children,
      reason |-> reason ]

\* session.rs 148-150: remove under agents.write(); AgentNotFound when the
\* id is absent, which the loop of an outer call drops (line 161).
LockTermRemove(t) ==
    /\ At(t, "remove")
    /\ locks' = pass(locks, AgentsLock)
    /\ LET agent_id == th[t].agent_id
       IN  IF agent_id \notin DOMAIN agents
           THEN /\ th' = [th EXCEPT ![t] =
                            IF th[t].stack = << >>
                            THEN Return(@, "AgentNotFound")
                            ELSE [Goto(@, "children") EXCEPT !.agent_id = None,
                                                             !.reason = ""]]
                /\ UNCHANGED agents
           ELSE /\ agents' = map_remove(agents, agent_id)
                /\ th' = [th EXCEPT ![t] =
                            [Goto(@, IF agents[agent_id].parent_id # None
                                     THEN "unlink" ELSE "children")
                               EXCEPT !.parent_id = agents[agent_id].parent_id,
                                      !.agent_id = None, !.reason = "",
                                      !.stack = << TermFrame(agent_id, agents[agent_id],
                                                             th[t].reason) >> \o @]]
    /\ UNCHANGED << hierarchy, next_id, events >>
    /\ LockFrame

\* session.rs 153-154 under agents.read(): the parent is looked up.
LockTermUnlink(t) ==
    /\ At(t, "unlink")
    /\ IF th[t].parent_id \in DOMAIN agents
       THEN /\ locks' = take(locks, AgentsLock)
            /\ th' = [th EXCEPT ![t] = Goto(@, "unlink_child")]
       ELSE /\ locks' = pass(locks, AgentsLock)
            /\ th' = [th EXCEPT ![t] = Goto(@, "children")]
    /\ UNCHANGED << agents, hierarchy, next_id, events >>
    /\ LockFrame

\* session.rs 155: remove_child under the parent's children.write(),
\* agents.read() still held; both guards are dropped at line 157.
LockTermUnlinkChild(t) ==
    /\ At(t, "unlink_child")
    /\ agents' = [agents EXCEPT ![th[t].parent_id] =
                                   remove_child(@, Head(th[t].stack).id)]
    /\ locks' = release(pass(locks, ChildrenLock(th[t].parent_id)), AgentsLock, t)
    /\ th' = [th EXCEPT ![t] = Goto(@, "children")]
    /\ UNCHANGED << hierarchy, next_id, events >>
    /\ LockFrame

\* session.rs 160-162: the loop over the removed agent's children (its
\* own children lock is free: the agent is in no table any more); the next
\* child is terminated by a nested call, whose result is dropped.
LockTermChildren(t) ==
    /\ th[t].pc = "children"
    /\ LET frame == Head(th[t].stack)
       IN  IF frame.kids = << >>
           THEN th' = [th EXCEPT ![t] = Goto(@, "term_hierarchy")]
           ELSE th' = [th EXCEPT ![t] =
                          [Goto(@, "remove")
                             EXCEPT !.agent_id = Head(frame.kids),
                                    !.reason = "Parent terminated",
                                    !.stack = << [frame EXCEPT !.kids = Tail(@)] >>
                                              \o Tail(th[t].stack)]]
    /\ UNCHANGED << agents, hierarchy, next_id, events, locks >>
    /\ LockFrame

\* session.rs 165: remove_agent under hierarchy.write().
LockTermHierarchy(t) ==
    /\ At(t, "term_hierarchy")
    /\ hierarchy' = remove_agent(hierarchy, Head(th[t].stack).id)
    /\ locks' = pass(locks, HierarchyLock)
    /\ th' = [th EXCEPT ![t] = Goto(@, "term_emit")]
    /\ UNCHANGED << agents, next_id, events >>
    /\ LockFrame

\* session.rs 168-176: agent.terminate sends its two events and the call
\* returns Ok, a nested call to the loop of the outer one.
LockTermEmit(t) ==
    /\ th[t].pc = "term_emit"
    /\ LET frame == Head(th[t].stack)
           sent  == terminate(frame.id, th[t].sub_id, frame.reason)
       IN  /\ events' = events \o sent
           /\ th' = [th EXCEPT ![t] =
                        IF Tail(th[t].stack) = << >>
                        THEN Return(@, "Ok")
                        ELSE [Goto(@, "children") EXCEPT !.stack = Tail(@)]]
    /\ UNCHANGED << agents, hierarchy, next_id, locks >>
    /\ LockFrame

\* A call of Session::hierarchy, orchestrator, get_agent or agent_ids begins.
LockReadCall(t) ==
    \E op \in {"hierarchy", "orchestrator", "get_agent", "agent_ids"} :
        /\ th[t].pc = "idle"
        /\ th' = [th EXCEPT ![t] =
                    [ThreadIdle EXCEPT !.op = op,
                                       !.pc = CASE op = "hierarchy" -> "tree"
                                                [] op = "orchestrator" -> "root"
                                                [] OTHER -> "get"]]
        /\ UNCHANGED << agents, hierarchy, next_id, events, locks >>
        /\ LockFrame

\* session.rs 181: hierarchy.read() is taken first ...
LockTree(t) ==
    /\ At(t, "tree")
    /\ locks' = take(locks, HierarchyLock)
    /\ th' = [th EXCEPT ![t] = Goto(@, "tree_agents")]
    /\ UNCHANGED << agents, hierarchy, next_id, events >>
    /\ LockFrame

\* ... then agents.read() for to_tree; both guards are dropped at the end
\* of the statement.
LockTreeAgents(t) ==
    /\ At(t, "tree_agents")
    /\ locks' = release(pass(locks, AgentsLock), HierarchyLock, t)
    /\ th' = [th EXCEPT ![t] = Return(@, "Ok")]
    /\ UNCHANGED << agents, hierarchy, next_id, events >>
    /\ LockFrame

\* session.rs 196: root() under hierarchy.read(); without a root the
\* closure of and_then does not run.
LockRoot(t) ==
    /\ At(t, "root")
    /\ IF hierarchy.root = None
       THEN /\ locks' = pass(locks, HierarchyLock)
            /\ th' = [th EXCEPT ![t] = Return(@, "None")]
       ELSE /\ locks' = take(locks, HierarchyLock)
            /\ th' = [th EXCEPT ![t] = [Goto(@, "root_agent")
                                          EXCEPT !.agent_id = hierarchy.root]]
    /\ UNCHANGED << agents, hierarchy, next_id, events >>
    /\ LockFrame

\* session.rs 196, 126-128: get_agent(root) under agents.read(), the guard
\* of hierarchy.read() still held.
LockRootAgent(t) ==
    /\ At(t, "root_agent")
    /\ locks' = release(pass(locks, AgentsLock), HierarchyLock, t)
    /\ th' = [th EXCEPT ![t] = Return(@, IF th[t].agent_id \in DOMAIN agents
                                         THEN "Some" ELSE "None")]
    /\ UNCHANGED << agents, hierarchy, next_id, events >>
    /\ LockFrame

\* session.rs 126-133: get_agent and agent_ids, each under agents.read().
LockGet(t) ==
    /\ At(t, "get")
    /\ locks' = pass(locks, AgentsLock)
    /\ th' = [th EXCEPT ![t] = Return(@, "Ok")]
    /\ UNCHANGED << agents, hierarchy, next_id, events >>
    /\ LockFrame

\* A thread begins a call.
LockCall(t) == LockSpawnCall(t) \/ LockTermCall(t) \/ LockReadCall(t)

\* A thread goes on with the call it is in.
LockStep(t) ==
    \/ Park(t)
    \/ LockSpawnCheck(t)
    \/ LockSpawnCheckChildren(t)
    \/ LockSpawnInsert(t)
    \/ LockSpawnHierarchy(t)
    \/ LockSpawnLink(t)
    \/ LockSpawnLinkChild(t)
    \/ LockSpawnEmit(t)
    \/ LockTermRemove(t)
    \/ LockTermUnlink(t)
    \/ LockTermUnlinkChild(t)
    \/ LockTermChildren(t)
    \/ LockTermHierarchy(t)
    \/ LockTermEmit(t)
    \/ LockTree(t)
    \/ LockTreeAgents(t)
    \/ LockRoot(t)
    \/ LockRootAgent(t)
    \/ LockGet(t)

NextLocks == \E t \in Threads : LockCall(t) \/ LockStep(t)

SpecLocks == Init /\ [][NextLocks]_vars

\* The scheduler runs every thread that can take a step, and a free lock
\* goes to the first thread of its queue: a thread that is in a call and
\* can go on does go on.
SpecLocksFair == SpecLocks /\ \A t \in Threads : WF_vars(LockStep(t))

(* ------- two concurrent Session::spawn_agent calls (SpecRace) --------- *)

\* Two threads that hold a SessionHandle of the same Session.
RaceThreads == {"t1", "t2"}

\* The state after Session::new, neither thread in a call.
InitRace ==
    /\ agents = Session_new.agents
    /\ hierarchy = Session_new.hierarchy
    /\ next_id = Session_new.next_id
    /\ events = Session_new.events
    /\ result = Call("new", None, None, "Ok")
    /\ readded = 0
    /\ calls = [t \in RaceThreads |-> Idle]
    /\ reader = ReaderIdle
    /\ disp = Orchestrator_new
    /\ chan = GoblinChannel_new
    /\ given = NothingGiven
    /\ th = [t \in Threads |-> ThreadIdle]
    /\ locks = Unlocked

\* Each thread makes spawn_agent calls, a step of one at a time: the locks
\* of spawn_agent are taken and released step by step, none is held from
\* the can_spawn check to the add_child.
NextRace ==
    \E t \in RaceThreads :
        \/ SpawnCheck(t)
        \/ SpawnInsert(t)
        \/ SpawnHierarchy(t)
        \/ SpawnLink(t)
        \/ SpawnEmit(t)

SpecRace == InitRace /\ [][NextRace]_vars

(* ------------------- one Agent on its own (SpecAgent) ------------------ *)

\* The agent the calls are made on, and the ids and values they draw.
TheAgent == 1

KidIds == 1..MaxAgentKids

TaskIds == 1..MaxTasks

\* The AgentStatus values the code names.
Statuses == {"Spawning", "Initializing", "Running", "Terminated"}

\* The state after Agent::new(config, None, tools, event_tx).
InitAgent ==
    /\ \E config \in Configs : agents = (TheAgent :> Agent_new(config, None))
    /\ hierarchy = AgentHierarchy_new
    /\ next_id = TheAgent + 1
    /\ events = << >>
    /\ result = Call("new", TheAgent, None, "Ok")
    /\ readded = 0
    /\ calls = [t \in ConcThreads |-> Idle]
    /\ reader = ReaderIdle
    /\ disp = Orchestrator_new
    /\ chan = GoblinChannel_new
    /\ given = NothingGiven
    /\ th = [t \in Threads |-> ThreadIdle]
    /\ locks = Unlocked

\* What a call on the agent leaves alone.
AgentFrame == UNCHANGED << hierarchy, next_id, readded, calls, reader, disp, chan, given, th, locks >>

\* Agent::set_status(status, sub_id): the write, then one AgentStatusChanged.
SetStatus ==
    \E status \in Statuses, sub_id \in SubIds :
        /\ agents' = [agents EXCEPT ![TheAgent] = set_status(@, status)]
        /\ events' = << Event("AgentStatusChanged", sub_id, TheAgent, None, status) >>
        /\ result' = Call("set_status", TheAgent, None, "Ok")
        /\ AgentFrame

\* Agent::initialize(sub_id): set_status(Initializing), set_status(Running).
Initialize ==
    \E sub_id \in SubIds :
        /\ agents' = [agents EXCEPT ![TheAgent] =
                         set_status(set_status(@, "Initializing"), "Running")]
        /\ events' = << Event("AgentStatusChanged", sub_id, TheAgent, None, "Initializing"),
                        Event("AgentStatusChanged", sub_id, TheAgent, None, "Running") >>
        /\ result' = Call("initialize", TheAgent, None, "Ok")
        /\ AgentFrame

\* Agent::terminate(sub_id, reason): set_status(Terminated), AgentTerminated.
Terminate ==
    \E sub_id \in SubIds, reason \in Reasons :
        /\ agents' = [agents EXCEPT ![TheAgent] = set_status(@, "Terminated")]
        /\ events' = terminate(TheAgent, sub_id, reason)
        /\ result' = Call("terminate", TheAgent, None, "Ok")
        /\ AgentFrame

\* Agent::assign_task(task_id).
AssignTask ==
    \E task_id \in TaskIds :
        /\ agents' = [agents EXCEPT ![TheAgent] = assign_task(@, task_id)]
        /\ events' = << >>
        /\ result' = Call("assign_task", TheAgent, None, "Ok")
        /\ AgentFrame

\* Agent::add_child(child_id).
AddChild ==
    \E child_id \in KidIds :
        /\ Len(agents[TheAgent].children) < MaxAgentKids
        /\ agents' = [agents EXCEPT ![TheAgent] = add_child(@, child_id)]
        /\ events' = << >>
        /\ result' = Call("add_child", child_id, TheAgent, "Ok")
        /\ AgentFrame

\* Agent::remove_child(child_id): true when the id was in the list.
RemoveChild ==
    \E child_id \in KidIds :
        /\ agents' = [agents EXCEPT ![TheAgent] = remove_child(@, child_id)]
        /\ events' = << >>
        /\ result' = Call("remove_child", child_id, TheAgent,
                          IF position(agents[TheAgent].children, child_id) # 0
                          THEN "true" ELSE "false")
        /\ AgentFrame

\* Agent::add_usage(input, output).
AddUsage ==
    \E input \in 0..1, output \in 0..1 :
        /\ agents[TheAgent].usage.total_tokens + input + output <= MaxTokens
        /\ agents' = [agents EXCEPT ![TheAgent] = add_usage(@, input, output)]
        /\ given' = [ input |-> given.input + input, output |-> given.output + output ]
        /\ events' = << >>
        /\ result' = Call("add_usage", TheAgent, None, "Ok")
        /\ UNCHANGED << hierarchy, next_id, readded, calls, reader, disp, chan, th, locks >>

\* Agent::emit_message(sub_id, content, streaming): one AgentMessage.
EmitMessage ==
    \E sub_id \in SubIds :
        /\ events' = << Event("AgentMessage", sub_id, TheAgent, None, "content") >>
        /\ result' = Call("emit_message", TheAgent, None, "Ok")
        /\ UNCHANGED agents
        /\ AgentFrame

\* Agent::can_spawn().
CanSpawn ==
    /\ result' = Call("can_spawn", TheAgent, None,
                      IF can_spawn(agents[TheAgent]) THEN "true" ELSE "false")
    /\ events' = << >>
    /\ UNCHANGED agents
    /\ AgentFrame

NextAgent ==
    \/ CanSpawn
    \/ SetStatus
    \/ Initialize
    \/ Terminate
    \/ AssignTask
    \/ AddChild
    \/ RemoveChild
    \/ AddUsage
    \/ EmitMessage

SpecAgent == InitAgent /\ [][NextAgent]_vars

(* ------ concurrent Agent::set_status calls on one Agent (SpecStatus) --- *)

\* The set_status calls begun so far: an event sent or still to be sent.
StatusCalls == Len(events) + Cardinality({ t \in Threads : th[t].pc = "send" })

\* agent.rs 77-80: the status is written under status.write() and the guard
\* is dropped; the event is not sent yet.
SetStatusWrite(t) ==
    \E status \in Statuses :
        /\ th[t].pc = "idle"
        /\ StatusCalls < MaxStatusCalls
        /\ agents' = [agents EXCEPT ![TheAgent] = set_status(@, status)]
        /\ th' = [th EXCEPT ![t] = [ThreadIdle EXCEPT !.op = "set_status",
                                       !.pc = "send", !.status = status]]
        /\ UNCHANGED << hierarchy, next_id, events, result, readded, calls, reader,
                        disp, chan, given, locks >>

\* agent.rs 82-86: the AgentStatusChanged event joins the stream, and the
\* call returns.
SetStatusSend(t) ==
    \E sub_id \in SubIds :
        /\ th[t].pc = "send"
        /\ events' = Append(events, Event("AgentStatusChanged", sub_id, TheAgent,
                                          None, th[t].status))
        /\ th' = [th EXCEPT ![t] = [ThreadIdle EXCEPT !.op = "set_status",
                                       !.ret = "Ok"]]
        /\ UNCHANGED << agents, hierarchy, next_id, result, readded, calls, reader,
                        disp, chan, given, locks >>

NextStatus == \E t \in Threads : SetStatusWrite(t) \/ SetStatusSend(t)

SpecStatus == InitAgent /\ [][NextStatus]_vars

(* ------------------ the Orchestrator's loop (SpecDisp) ----------------- *)

\* The values the sender of a command draws.
ParallelCaps == {0, 1}

OpIds == 1..MaxOpIds

Commands ==
    { [Op_default("ConfigureSession") EXCEPT !.max_parallel_agents = m] :
         m \in ParallelCaps }
    \cup { Op_default("UserInput"), Op_default("ExecApproval"), Op_default("Other") }
    \cup { [Op_default("Interrupt") EXCEPT !.task_id = t] : t \in {None} \cup TaskIds }
    \cup { [Op_default("SpawnAgent") EXCEPT !.parent_id = p] : p \in {None} \cup OpIds }
    \cup { [Op_default("TerminateAgent") EXCEPT !.agent_id = a, !.reason = r] :
             a \in OpIds, r \in Reasons }

\* What the Orchestrator's loop and its client leave alone.
DispFrame ==
    UNCHANGED << agents, hierarchy, next_id, events, result, readded, calls,
                 reader, chan, given, th, locks >>

\* GoblinChannel::send(op): the command, with a fresh submission id, joins
\* the unbounded inbound channel.
SendOp ==
    \E c \in Commands :
        /\ disp.tx_open
        /\ disp.sent < MaxOps
        /\ disp' = [disp EXCEPT !.sent = @ + 1,
                                !.op_queue = Append(@, [c EXCEPT !.sub_id = disp.sent + 1])]
        /\ DispFrame

\* Every sender of the inbound channel is dropped.
DropSenders ==
    /\ disp.tx_open
    /\ disp' = [disp EXCEPT !.tx_open = FALSE]
    /\ DispFrame

\* The receiver of the event channel is dropped.
DropReceiver ==
    /\ disp.rx_alive
    /\ disp' = [disp EXCEPT !.rx_alive = FALSE]
    /\ DispFrame

\* The Orchestrator as handle_op finds it.
Handling ==
    [ sessions |-> disp.sessions, next_session |-> disp.next_session,
      next_agent |-> disp.next_agent, next_task |-> disp.next_task,
      events |-> << >>, rx_alive |-> disp.rx_alive, ret |-> "Ok" ]

\* The handlers that start with values().next().
PickingOps == {"UserInput", "Interrupt", "SpawnAgent", "TerminateAgent"}

\* Mutant of recv: the newest command is taken, not the oldest.
recv_newest(op_queue) ==
    [ op |-> op_queue[Len(op_queue)], rest |-> SubSeq(op_queue, 1, Len(op_queue) - 1) ]

\* op_rx.recv() on a non-empty channel: the oldest command.
recv(op_queue) == [ op |-> Head(op_queue), rest |-> Tail(op_queue) ]

\* One turn of the loop of run: recv() yields the oldest command, handle_op
\* handles it, an Err is logged.
HandleOp ==
    /\ disp.running
    /\ disp.op_queue # << >>
    /\ LET r == recv(disp.op_queue)
       IN  \E pick \in (IF r.op.op \in PickingOps
                        THEN FirstSessions(disp.sessions) ELSE {None}) :
              \E o \in {handle_op(Handling, pick, r.op)} :
                  disp' = [disp EXCEPT
                              !.sessions = o.sessions,
                              !.next_session = o.next_session,
                              !.next_agent = o.next_agent,
                              !.next_task = o.next_task,
                              !.op_queue = r.rest,
                              !.stream = @ \o o.events,
                              !.running = loop_continues(o.ret),
                              !.errors = IF o.ret = "Ok" THEN @ ELSE @ + 1,
                              !.last = [ op |-> r.op.op, cmd |-> r.op,
                                         pick |-> pick, ret |-> o.ret,
                                         events |-> o.events ]]
    /\ DispFrame

\* recv() yields None: the channel is empty and every sender is dropped.
\* The loop ends and run returns Ok.
Stop ==
    /\ disp.running
    /\ disp.op_queue = << >>
    /\ ~disp.tx_open
    /\ disp' = [disp EXCEPT !.running = FALSE]
    /\ DispFrame

NextDisp ==
    \/ SendOp
    \/ DropSenders
    \/ DropReceiver
    \/ HandleOp
    \/ Stop

SpecDisp == Init /\ [][NextDisp]_vars

(* --------------- the loop under a fair scheduler (SpecLoop) ----------- *)

\* The commands sent in SpecLoop: among them sequences that make a handler
\* return each of NoActiveSession, NoOrchestrator, AgentNotFound and
\* SpawnDenied.
LoopCommands ==
    { [Op_default("ConfigureSession") EXCEPT !.max_parallel_agents = 0],
      Op_default("UserInput"),
      [Op_default("SpawnAgent") EXCEPT !.parent_id = 1],
      [Op_default("TerminateAgent") EXCEPT !.agent_id = 1] }

SendLoopOp ==
    \E c \in LoopCommands :
        /\ disp.tx_open
        /\ disp.sent < MaxOps
        /\ disp' = [disp EXCEPT !.sent = @ + 1,
                                !.op_queue = Append(@, [c EXCEPT !.sub_id = disp.sent + 1])]
        /\ DispFrame

NextLoop ==
    \/ SendLoopOp
    \/ DropSenders
    \/ HandleOp
    \/ Stop

\* The loop's task is polled again whenever recv() can yield: a turn of the
\* loop that stays possible is taken, and so is its end.
SpecLoop == Init /\ [][NextLoop]_vars /\ WF_vars(HandleOp) /\ WF_vars(Stop)

(* --------- the event side of a GoblinChannel (SpecChan) --------------- *)

\* `chan` is the event channel behind the clones of one GoblinChannel: the
\* parking_lot mutex around the receiver (`lock`: "free" or the client that
\* holds the guard), the events in the channel, whether a sender is alive,
\* and for each client using a clone where its call stands: "idle" (no call
\* in progress), "try_lock" (try_recv, blocked in event_rx.lock()),
\* "recv_lock" (recv, blocked in event_rx.lock()), "recv_wait" (recv,
\* suspended in guard.recv().await with the guard held); `got` is what its
\* last call returned, None or the event.
ChanFrame ==
    UNCHANGED << agents, hierarchy, next_id, events, result, readded, calls,
                 reader, disp, given, th, locks >>

\* try_recv() on the receiver: the oldest event, None without one.
try_recv(ch, c) ==
    IF ch.queue # << >>
    THEN [ch EXCEPT !.queue = Tail(@),
                    !.clients[c] = [pc |-> "idle", got |-> Head(ch.queue)]]
    ELSE [ch EXCEPT !.clients[c] = [pc |-> "idle", got |-> None]]

\* recv() with the guard just taken: it returns the oldest event, or None
\* when the channel is empty and every sender dropped, and the guard is
\* dropped with it; else the call is suspended and the guard stays held.
recv_poll(ch, c) ==
    IF ch.queue # << >>
    THEN [ch EXCEPT !.queue = Tail(@), !.lock = "free",
                    !.clients[c] = [pc |-> "idle", got |-> Head(ch.queue)]]
    ELSE IF ~ch.tx_alive
    THEN [ch EXCEPT !.lock = "free",
                    !.clients[c] = [pc |-> "idle", got |-> None]]
    ELSE [ch EXCEPT !.lock = c, !.clients[c].pc = "recv_wait"]

\* event_tx.send(event) by the Orchestrator's side.
ProduceEvent ==
    /\ chan.tx_alive
    /\ chan.produced < MaxChanEvents
    /\ chan' = [chan EXCEPT !.produced = @ + 1, !.queue = Append(@, chan.produced + 1)]
    /\ ChanFrame

\* Every sender of the event channel is dropped.
DropEventSender ==
    /\ chan.tx_alive
    /\ chan' = [chan EXCEPT !.tx_alive = FALSE]
    /\ ChanFrame

\* GoblinChannel::try_recv is called: with the mutex free it locks, polls
\* and unlocks without yielding; with the mutex held the thread blocks in
\* lock().
TryRecvCall(c) ==
    /\ chan.clients[c].pc = "idle"
    /\ chan' = IF chan.lock = "free" THEN try_recv(chan, c)
               ELSE [chan EXCEPT !.clients[c].pc = "try_lock"]
    /\ ChanFrame

\* The blocked try_recv gets the mutex and returns.
TryRecvLocked(c) ==
    /\ chan.clients[c].pc = "try_lock"
    /\ chan.lock = "free"
    /\ chan' = try_recv(chan, c)
    /\ ChanFrame

\* GoblinChannel::recv is called.
RecvCall(c) ==
    /\ chan.clients[c].pc = "idle"
    /\ chan' = IF chan.lock = "free" THEN recv_poll(chan, c)
               ELSE [chan EXCEPT !.clients[c].pc = "recv_lock"]
    /\ ChanFrame

\* The recv blocked in lock() gets the mutex.
RecvLocked(c) ==
    /\ chan.clients[c].pc = "recv_lock"
    /\ chan.lock = "free"
    /\ chan' = recv_poll(chan, c)
    /\ ChanFrame

\* The suspended recv is woken by an event or by the last sender's drop.
RecvWake(c) ==
    /\ chan.clients[c].pc = "recv_wait"
    /\ chan.queue # << >> \/ ~chan.tx_alive
    /\ chan' = recv_poll(chan, c)
    /\ ChanFrame

NextChan ==
    \/ ProduceEvent
    \/ DropEventSender
    \/ \E c \in ChanClients :
          \/ TryRecvCall(c)
          \/ TryRecvLocked(c)
          \/ RecvCall(c)
          \/ RecvLocked(c)
          \/ RecvWake(c)

SpecChan == Init /\ [][NextChan]_vars

(* ---------------------- properties of Spec ---------------------------- *)

Range(seq) == { seq[i] : i \in 1..Len(seq) }

\* id and everything below it by the Agents' own children lists in `ags`.
RECURSIVE Subtree(_, _)
Subtree(ags, id) ==
    IF id \notin DOMAIN ags THEN {id}
    ELSE {id} \cup UNION { Subtree(ags, c) : c \in Range(ags[id].children) }

\* The agents of the table whose parent_id is p.
LiveChildren(ags, p) == { a \in DOMAIN ags : ags[a].parent_id = p }

SessionUnchanged ==
    /\ agents' = agents
    /\ hierarchy' = hierarchy
    /\ next_id' = next_id

\* C1: after a successful terminate_agent(id), neither id nor any agent that
\* was below id (by the children lists as they were before the call) is in
\* the agent table or in the hierarchy.
C1_TerminateRemovesSubtree ==
    [][ (result'.op = "terminate_agent" /\ result'.res = "Ok")
          => \A d \in Subtree(agents, result'.agent_id) :
                /\ d \notin DOMAIN agents'
                /\ d \notin DOMAIN hierarchy'.nodes ]_vars

\* A terminate_agent that took a descendant along and left other agents.
C1_Witness ==
    /\ result.op = "terminate_agent"
    /\ result.res = "Ok"
    /\ Len(events) >= 4
    /\ \E e \in Range(events) :
          e.type = "AgentTerminated" /\ e.agent_id # result.agent_id
    /\ DOMAIN agents # {}

\* C2: terminate_agent on an id that is not in the table returns
\* AgentNotFound, changes neither the table nor the hierarchy nor any
\* children list, and sends no event; in particular a second
\* terminate_agent(id) right after a successful one does so.
C2_TerminateIdempotent ==
    [][ /\ (result'.op = "terminate_agent"
              /\ result'.agent_id \notin DOMAIN agents)
          => (/\ result'.res = "AgentNotFound"
              /\ SessionUnchanged
              /\ events' = << >>)
        /\ (result.op = "terminate_agent" /\ result.res = "Ok"
              /\ result'.op = "terminate_agent"
              /\ result'.agent_id = result.agent_id)
          => (/\ result'.res = "AgentNotFound"
              /\ SessionUnchanged
              /\ events' = << >>) ]_vars

\* terminate_agent failed on an id that had been spawned (and so terminated
\* before), with other agents still in the table.
C2_Witness ==
    /\ result.op = "terminate_agent"
    /\ result.res = "AgentNotFound"
    /\ result.agent_id < next_id
    /\ events = << >>
    /\ DOMAIN agents # {}

\* C3: spawn_agent with a parent id returns AgentNotFound when the parent is
\* not in the table and SpawnDenied when the parent's can_spawn flag is false
\* or its children count has reached its max_children; a failed spawn_agent
\* changes neither the table nor the hierarchy nor the parent's children and
\* sends no event.
C3_SpawnFailures ==
    [][ (result'.op = "spawn_agent" /\ result'.parent_id # None)
          => LET p == result'.parent_id IN
             /\ p \notin DOMAIN agents => result'.res = "AgentNotFound"
             /\ (/\ p \in DOMAIN agents
                 /\ \/ ~agents[p].can_spawn
                    \/ /\ agents[p].max_children # NoCap
                       /\ Len(agents[p].children) >= agents[p].max_children)
                   => result'.res = "SpawnDenied"
             /\ result'.res \in {"AgentNotFound", "SpawnDenied"}
                   => (/\ SessionUnchanged
                       /\ events' = << >>) ]_vars

\* A spawn was denied because a spawn-enabled parent had reached a cap >= 1.
C3_Witness ==
    /\ result.op = "spawn_agent"
    /\ result.res = "SpawnDenied"
    /\ result.parent_id \in DOMAIN agents
    /\ agents[result.parent_id].can_spawn
    /\ agents[result.parent_id].max_children >= 1
    /\ Len(agents[result.parent_id].children) = agents[result.parent_id].max_children

\* C4: a spawn_agent with no parent, or with a parent in the table whose
\* can_spawn() is true, succeeds and adds exactly one agent with a fresh id:
\* the table grows by that id alone, the parent's children (Agent and
\* hierarchy node) get the new id appended last, every other children list is
\* unchanged, and exactly one AgentSpawned event with the new id and the
\* given parent id is sent.
C4_SpawnSuccess ==
    [][ (/\ result'.op = "spawn_agent"
         /\ \/ result'.parent_id = None
            \/ /\ result'.parent_id \in DOMAIN agents
               /\ can_spawn(agents[result'.parent_id]))
          => LET p   == result'.parent_id
                 new == result'.agent_id
             IN
             /\ result'.res = "Ok"
             /\ new # None
             /\ new \notin DOMAIN agents
             /\ new \notin DOMAIN hierarchy.nodes
             /\ DOMAIN agents' = DOMAIN agents \cup {new}
             /\ Cardinality(DOMAIN agents') = Cardinality(DOMAIN agents) + 1
             /\ DOMAIN hierarchy'.nodes = DOMAIN hierarchy.nodes \cup {new}
             /\ p # None =>
                   /\ agents'[p].children = Append(agents[p].children, new)
                   /\ children(hierarchy', p) = Append(children(hierarchy, p), new)
             /\ \A a \in DOMAIN agents \ {p} :
                   /\ agents'[a].children = agents[a].children
                   /\ children(hierarchy', a) = children(hierarchy, a)
             /\ Len(events') = 1
             /\ events'[1].type = "AgentSpawned"
             /\ events'[1].agent_id = new
             /\ events'[1].parent_id = p ]_vars

\* A spawn succeeded under a parent that already had a child.
C4_Witness ==
    /\ result.op = "spawn_agent"
    /\ result.res = "Ok"
    /\ result.parent_id \in DOMAIN agents
    /\ Len(agents[result.parent_id].children) >= 2
    /\ agents[result.parent_id].children[Len(agents[result.parent_id].children)]
          = result.agent_id

\* No agent with a cap m has more than m children.
C5_CapHolds ==
    \A p \in DOMAIN agents :
        agents[p].max_children # NoCap
          => Len(agents[p].children) <= agents[p].max_children

\* C5: the max_children cap counts live children only. No agent with a cap m
\* ever has more than m children; a spawn under a spawn-enabled parent with
\* cap m succeeds exactly when fewer than m agents of the table name it as
\* their parent, and is denied otherwise (so it is denied at m children and
\* succeeds again once one of them has been terminated).
C5_CapCountsLiveChildren ==
    /\ []C5_CapHolds
    /\ [][ (/\ result'.op = "spawn_agent"
            /\ result'.parent_id \in DOMAIN agents
            /\ agents[result'.parent_id].can_spawn
            /\ agents[result'.parent_id].max_children # NoCap)
             => LET p == result'.parent_id IN
                result'.res =
                    IF Cardinality(LiveChildren(agents, p)) < agents[p].max_children
                    THEN "Ok" ELSE "SpawnDenied" ]_vars

\* A spawn succeeded under a parent that is now at its cap, after an agent
\* spawned later than the parent had been terminated.
C5_Witness ==
    /\ result.op = "spawn_agent"
    /\ result.res = "Ok"
    /\ result.parent_id \in DOMAIN agents
    /\ agents[result.parent_id].max_children >= 1
    /\ Len(agents[result.parent_id].children) = agents[result.parent_id].max_children
    /\ \E c \in AgentIds :
          /\ result.parent_id < c
          /\ c < result.agent_id
          /\ c \notin DOMAIN agents

\* C7: after every completed call the hierarchy mirrors the agents' own
\* fields: same ids, and for every agent the same parent and the same
\* children in the same order.
C7_HierarchyMirrorsAgents ==
    /\ DOMAIN agents = DOMAIN hierarchy.nodes
    /\ \A a \in DOMAIN agents :
          /\ parent(hierarchy, a) = agents[a].parent_id
          /\ children(hierarchy, a) = agents[a].children

\* After a terminate_agent, an agent that still has a child is left.
C7_Witness ==
    /\ result.op = "terminate_agent"
    /\ result.res = "Ok"
    /\ \E a \in DOMAIN agents : Len(agents[a].children) >= 1

\* C8: after every completed call, for all ids p and c, c is in
\* hierarchy.children(p) exactly when hierarchy.parent(c) is Some(p).
C8_ChildrenIffParent ==
    \A p \in AgentIds, c \in AgentIds :
        (c \in Range(children(hierarchy, p))) <=> (parent(hierarchy, c) = p)

\* A three-level tree: some node's parent has a parent.
C8_Witness ==
    \E c \in DOMAIN hierarchy.nodes :
        /\ parent(hierarchy, c) # None
        /\ parent(hierarchy, parent(hierarchy, c)) # None

(* -------------------- properties of SpecHier -------------------------- *)

\* C9 as stated: in the hierarchy on its own, after any add_agent and
\* remove_agent calls, c is in children(p) exactly when parent(c) is Some(p).
C9_HierChildrenIffParent ==
    \A p \in HierIds, c \in HierIds :
        (c \in Range(children(hierarchy, p))) <=> (parent(hierarchy, c) = p)

\* C9, amended: as long as add_agent was never given an id that was a node
\* at the time, every id in children(p) has parent Some(p); this also holds
\* after an add_agent naming a parent that is not a node and after a
\* remove_agent of a node that has children.
C9_HierChildrenHaveParent ==
    readded = 0 =>
        \A p \in HierIds, c \in HierIds :
            (c \in Range(children(hierarchy, p))) => (parent(hierarchy, c) = p)

\* No id was added twice; one node is a linked child, another names a parent
\* that is not a node (added dangling, or orphaned by a removal).
C9_Witness ==
    /\ readded = 0
    /\ \E p \in DOMAIN hierarchy.nodes : children(hierarchy, p) # << >>
    /\ \E c \in DOMAIN hierarchy.nodes :
          /\ parent(hierarchy, c) # None
          /\ parent(hierarchy, c) \notin DOMAIN hierarchy.nodes

\* C10 as stated: at most one node of the hierarchy has parent = None.
C10_AtMostOneParentless ==
    Cardinality({ n \in DOMAIN hierarchy.nodes :
                    hierarchy.nodes[n].parent = None }) <= 1

(* -------------------- properties of SpecConc -------------------------- *)

\* C6 as stated: no reader that has seen an agent in the table then finds it
\* absent from the hierarchy or from its parent's children.
C6_SpawnAppearsAtomic ==
    /\ reader.pc \in {"hierarchy", "done"} => reader.in_hierarchy
    /\ reader.pc = "done" => reader.in_parent


(* ------------------------- properties of depth ------------------------ *)

\* C11: in every hierarchy built by add_agent calls that each name an id not
\* added before and a parent other than that id (and remove_agent calls),
\* depth returns 0 for every node without a parent and for every id that is
\* no node, and for every node c with a parent depth(c) and depth(parent(c))
\* both return and depth(c) = depth(parent(c)) + 1.
C11_DepthEquations ==
    (readded = 0 /\ \A n \in DOMAIN hierarchy.nodes : parent(hierarchy, n) # n) =>
        /\ \A c \in DOMAIN hierarchy.nodes :
              IF parent(hierarchy, c) = None
              THEN depth(hierarchy, c) = 0
              ELSE /\ depth(hierarchy, c) # Diverges
                   /\ depth(hierarchy, parent(hierarchy, c)) # Diverges
                   /\ depth(hierarchy, c) =
                          depth(hierarchy, parent(hierarchy, c)) + 1
        /\ \A x \in HierIds \ DOMAIN hierarchy.nodes : depth(hierarchy, x) = 0

\* The same equations in a session, whose spawn_agent only names parents
\* that are in the table.
C11_SessionDepth ==
    \A c \in DOMAIN hierarchy.nodes :
        /\ depth(hierarchy, c) # Diverges
        /\ depth(hierarchy, c) =
              IF parent(hierarchy, c) = None THEN 0
              ELSE depth(hierarchy, parent(hierarchy, c)) + 1


(* ------------------------ properties of SpecAgent --------------------- *)

\* C12: Terminated is absorbing: a call on an agent whose status() is
\* Terminated (set_status, initialize, terminate, assign_task, add_child,
\* remove_child, add_usage, emit_message) leaves status() Terminated.
C12_TerminatedAbsorbing ==
    [][ agents[TheAgent].status = "Terminated"
          => agents'[TheAgent].status = "Terminated" ]_vars


(* ------------------------ properties of SpecDisp ---------------------- *)

\* The step is one turn of the loop handling a command of the given variant.
Handled(op) ==
    /\ Len(disp'.op_queue) < Len(disp.op_queue)
    /\ disp'.last.op = op

\* The ids handed out so far stay as they are.
NoIdAllocated ==
    /\ disp'.next_session = disp.next_session
    /\ disp'.next_agent = disp.next_agent
    /\ disp'.next_task = disp.next_task

\* C13: handling ConfigureSession(config) adds exactly one session, under a
\* fresh id, and leaves the others as they were; the new session holds
\* exactly one agent, which is its hierarchy's root and only node, has role
\* Orchestrator, can_spawn true and max_children = max_parallel_agents; the
\* handler returns Ok and, the event receiver alive, puts on the stream
\* AgentSpawned for that agent and then SessionConfigured with the new
\* session id, and nothing else.
C13_ConfigureSession ==
    [][ Handled("ConfigureSession") =>
          LET cmd        == disp'.last.cmd
              session_id == disp.next_session
              agent_id   == disp.next_agent
          IN  /\ session_id \notin DOMAIN disp.sessions
              /\ DOMAIN disp'.sessions = DOMAIN disp.sessions \cup {session_id}
              /\ \A x \in DOMAIN disp.sessions : disp'.sessions[x] = disp.sessions[x]
              /\ \A x \in DOMAIN disp.sessions :
                    agent_id \notin DOMAIN disp.sessions[x].agents
              /\ LET session == disp'.sessions[session_id]
                 IN  /\ DOMAIN session.agents = {agent_id}
                     /\ session.hierarchy.root = agent_id
                     /\ DOMAIN session.hierarchy.nodes = {agent_id}
                     /\ session.agents[agent_id].role = "Orchestrator"
                     /\ session.agents[agent_id].can_spawn = TRUE
                     /\ session.agents[agent_id].max_children = cmd.max_parallel_agents
                     /\ session.agents[agent_id].parent_id = None
                     /\ session.current_task = None
              /\ disp'.last.ret = "Ok"
              /\ disp.rx_alive =>
                    disp'.last.events =
                        << Event("AgentSpawned", cmd.sub_id, agent_id, None, ""),
                           RefEvent("SessionConfigured", cmd.sub_id, session_id) >> ]_vars

\* A second ConfigureSession has been handled, its two events on the stream.
C13_Witness ==
    /\ disp.last.op = "ConfigureSession"
    /\ Cardinality(DOMAIN disp.sessions) = 2
    /\ Len(disp.last.events) = 2
    /\ disp.last.cmd.max_parallel_agents = 1

\* C14: when Interrupt with no task id is handled and the session that
\* values().next() yields has current task t, the session's current task
\* becomes None and nothing else of any session changes, and (the event
\* receiver alive) exactly one event, TaskInterrupted carrying t, is put on
\* the stream; when that session has no current task, no event is put on the
\* stream and no session changes. Either way the handler returns Ok and no
\* id is allocated.
C14_InterruptCurrentTask ==
    [][ (Handled("Interrupt") /\ disp'.last.cmd.task_id = None
                              /\ disp'.last.pick # None) =>
          LET cmd  == disp'.last.cmd
              pick == disp'.last.pick
              t    == disp.sessions[pick].current_task
          IN  /\ pick \in DOMAIN disp.sessions
              /\ disp'.last.ret = "Ok"
              /\ NoIdAllocated
              /\ IF t # None
                 THEN /\ disp'.sessions =
                            [disp.sessions EXCEPT ![pick].current_task = None]
                      /\ disp.rx_alive =>
                            disp'.last.events =
                                << RefEvent("TaskInterrupted", cmd.sub_id, t) >>
                 ELSE /\ disp'.sessions = disp.sessions
                      /\ disp'.last.events = << >>
                      /\ disp'.stream = disp.stream ]_vars

\* An Interrupt without a task id has interrupted the current task.
C14_Witness ==
    /\ disp.last.op = "Interrupt"
    /\ disp.last.cmd.task_id = None
    /\ Len(disp.last.events) = 1
    /\ disp.last.events[1].type = "TaskInterrupted"
    /\ disp.sessions[disp.last.pick].current_task = None


\* Commands handled so far.
HandledCount == disp.sent - Len(disp.op_queue)

\* C15: the loop of run has returned only if every sender of the inbound
\* channel is dropped and no command is left in it, so it is still running
\* after a command whose handling returned an Err; under fairness every
\* command sent is handled, whatever the commands before it returned, and
\* once the senders are dropped the loop handles what is left and returns.
C15_LoopSurvivesErrors ==
    /\ [](~disp.running => (~disp.tx_open /\ disp.op_queue = << >>))
    /\ \A n \in 1..MaxOps : (disp.sent >= n) ~> (HandledCount >= n)
    /\ (~disp.tx_open) ~> (~disp.running /\ HandledCount = disp.sent)

\* Two commands' Errs were logged, a later command was handled and returned
\* Ok, and the loop has returned after the senders were dropped.
C15_Witness ==
    /\ disp.errors >= 2
    /\ disp.last.ret = "Ok"
    /\ ~disp.running
    /\ HandledCount = MaxOps


\* C16: commands are handled one at a time in the order they were sent (the
\* command handled last is the HandledCount-th sent, the commands waiting
\* are the next ones sent, in order), and the stream holds the events in
\* the order of emission: the events of a command sent earlier all precede
\* those of a command sent later, and the events of the command handled
\* last are the end of the stream.
C16_HandledInSendOrder ==
    /\ HandledCount > 0 => disp.last.cmd.sub_id = HandledCount
    /\ \A i \in 1..Len(disp.op_queue) : disp.op_queue[i].sub_id = HandledCount + i
    /\ \A i, j \in 1..Len(disp.stream) :
          i < j => disp.stream[i].sub_id <= disp.stream[j].sub_id
    /\ LET n == Len(disp.stream)
           k == Len(disp.last.events)
       IN  /\ k <= n
           /\ SubSeq(disp.stream, n - k + 1, n) = disp.last.events

\* Three commands have been handled and the stream holds events of each.
C16_Witness ==
    /\ HandledCount = 3
    /\ \A n \in 1..3 : \E i \in 1..Len(disp.stream) : disp.stream[i].sub_id = n
    /\ Len(disp.stream) >= 5

\* The Orchestrator as handle_op finds it, the event receiver alive or not.
HandlingWith(rx_alive) == [Handling EXCEPT !.rx_alive = rx_alive]

\* C17: in every state the loop reaches with a command waiting, whichever
\* session values().next() yields, the handler of the command to be handled
\* next returns the same value and leaves the same sessions (agent tables,
\* hierarchies, current tasks) and the same next ids with the event
\* receiver dropped as with the receiver alive; with the receiver dropped
\* no event joins the stream.
C17_EventsBestEffort ==
    disp.op_queue # << >> =>
        \A pick \in (IF Head(disp.op_queue).op \in PickingOps
                     THEN FirstSessions(disp.sessions) ELSE {None}) :
            LET cmd     == Head(disp.op_queue)
                alive   == handle_op(HandlingWith(TRUE), pick, cmd)
                dropped == handle_op(HandlingWith(FALSE), pick, cmd)
            IN  /\ dropped.ret = alive.ret
                /\ dropped.sessions = alive.sessions
                /\ dropped.next_session = alive.next_session
                /\ dropped.next_agent = alive.next_agent
                /\ dropped.next_task = alive.next_task
                /\ dropped.events = << >>

\* With the receiver dropped from the start, a session was configured, an
\* agent spawned under its root and the root terminated with its child.
C17_Witness ==
    /\ ~disp.rx_alive
    /\ disp.stream = << >>
    /\ disp.last.op = "TerminateAgent"
    /\ disp.last.ret = "Ok"
    /\ disp.next_agent = 3
    /\ \E x \in DOMAIN disp.sessions : DOMAIN disp.sessions[x].agents = {}


\* The task ids allocated so far that are still to be seen: the sessions'
\* current tasks and the ids of the TaskStarted events on the stream.
TasksInUse ==
    { disp.sessions[x].current_task : x \in DOMAIN disp.sessions }
    \cup { disp.stream[i].ref : i \in { k \in 1..Len(disp.stream) :
                                          disp.stream[k].type = "TaskStarted" } }

\* C18: handling UserInput returns NoActiveSession when no session is
\* registered; NoOrchestrator when the session values().next() yields has
\* no root in its hierarchy or no agent under the root's id; otherwise Ok,
\* and then the session's current task is a task id that was no session's
\* current task and on no earlier TaskStarted, no other session changes,
\* and (the event receiver alive) the events put on the stream are
\* TaskStarted with that id and then one AgentMessage of the agent at the
\* session's hierarchy root.
C18_UserInput ==
    [][ Handled("UserInput") =>
          LET cmd  == disp'.last.cmd
              pick == disp'.last.pick
              ret  == disp'.last.ret
          IN  IF DOMAIN disp.sessions = {}
              THEN pick = None /\ ret = "NoActiveSession"
              ELSE /\ pick \in DOMAIN disp.sessions
                   /\ LET session == disp.sessions[pick]
                           root    == session.hierarchy.root
                           task_id == disp'.sessions[pick].current_task
                       IN  IF root = None \/ root \notin DOMAIN session.agents
                           THEN ret = "NoOrchestrator"
                           ELSE /\ ret = "Ok"
                                /\ task_id # None
                                /\ task_id \notin TasksInUse
                                /\ task_id = disp.next_task
                                /\ disp'.next_task > task_id
                                /\ disp'.sessions =
                                      [disp.sessions EXCEPT ![pick].current_task = task_id]
                                /\ disp.rx_alive =>
                                      disp'.last.events =
                                        << RefEvent("TaskStarted", cmd.sub_id, task_id),
                                           Event("AgentMessage", cmd.sub_id, root, None,
                                                 "Received task") >> ]_vars

\* A second UserInput has succeeded, its task id fresh.
C18_Witness ==
    /\ disp.last.op = "UserInput"
    /\ disp.last.ret = "Ok"
    /\ Len(disp.last.events) = 2
    /\ disp.sessions[disp.last.pick].current_task = 2

\* C19: every event put on the stream while a command is handled carries
\* that command's submission id; so do the AgentStatusChanged and
\* AgentTerminated events of the agents a TerminateAgent command terminates
\* by cascade.
C19_EventsCarrySubId ==
    \A i \in 1..Len(disp.last.events) :
        disp.last.events[i].sub_id = disp.last.cmd.sub_id

\* A TerminateAgent command has terminated an agent and, by cascade, its
\* child: four events, two of them with the reason of the cascade.
C19_Witness ==
    /\ disp.last.op = "TerminateAgent"
    /\ Len(disp.last.events) = 4
    /\ disp.last.events[2].info = "Parent terminated"
    /\ disp.last.events[4].info = "requested"
    /\ disp.last.cmd.sub_id = 3


(* ------------------------ properties of SpecChan ---------------------- *)

\* C20: a try_recv call returns without waiting: no client is ever blocked
\* inside try_recv, whatever the other clients of the channel are doing.
C20_TryRecvNeverWaits ==
    \A c \in ChanClients : chan.clients[c].pc # "try_lock"


\* C21: can_spawn() returns false when config.can_spawn is false; else true
\* when config.max_children is None; else, with the cap Some(m), true
\* exactly when the children list is shorter than m.
C21_CanSpawnTable ==
    result.op = "can_spawn" =>
        LET agent == agents[TheAgent]
        IN  /\ result.res \in {"true", "false"}
            /\ ~agent.can_spawn => result.res = "false"
            /\ (agent.can_spawn /\ agent.max_children = NoCap) => result.res = "true"
            /\ (agent.can_spawn /\ agent.max_children # NoCap) =>
                  (result.res = "true" <=> Len(agent.children) < agent.max_children)

\* can_spawn() has returned false for an agent allowed to spawn whose
\* children list has reached its cap of one.
C21_Witness ==
    /\ result.op = "can_spawn"
    /\ result.res = "false"
    /\ agents[TheAgent].can_spawn
    /\ agents[TheAgent].max_children = 1
    /\ Len(agents[TheAgent].children) = 1

\* The agent as it would be had only its status been written.
OnlyStatusWritten(status) ==
    agents' = [agents EXCEPT ![TheAgent].status = status]

\* C22: set_status sends exactly one event (AgentStatusChanged) and
\* emit_message exactly one (AgentMessage); terminate sends exactly two, the
\* AgentStatusChanged{Terminated} of its set_status and then AgentTerminated.
\* None of the three calls changes an agent field other than status.
C22_EventsPerCall ==
    [][ /\ result'.op = "set_status" =>
              /\ Len(events') = 1
              /\ events'[1].type = "AgentStatusChanged"
              /\ OnlyStatusWritten(events'[1].info)
        /\ result'.op = "emit_message" =>
              /\ Len(events') = 1
              /\ events'[1].type = "AgentMessage"
              /\ agents' = agents
        /\ result'.op = "terminate" =>
              /\ Len(events') = 2
              /\ events'[1].type = "AgentStatusChanged"
              /\ events'[1].info = "Terminated"
              /\ events'[2].type = "AgentTerminated"
              /\ OnlyStatusWritten("Terminated") ]_vars

\* A terminate call made on an agent that has a task and a child.
C22_Witness ==
    /\ result.op = "terminate"
    /\ Len(events) = 2
    /\ agents[TheAgent].status = "Terminated"
    /\ agents[TheAgent].current_task # None
    /\ agents[TheAgent].children # << >>

\* C22 as stated: each of the three calls sends exactly one event and
\* changes no field other than status.
C22_OneEventPerCall ==
    [][ result'.op \in {"set_status", "emit_message", "terminate"} =>
              /\ Len(events') = 1
              /\ \E status \in Statuses : OnlyStatusWritten(status) ]_vars

\* C23: after any sequence of add_usage calls, total_tokens is input_tokens
\* + output_tokens, input_tokens and output_tokens are the sums of the
\* respective arguments, and no counter decreases from one state to the next
\* (the counters staying below the bound, so without wrap-around).
C23_UsageAccumulates ==
    /\ [](LET usage == agents[TheAgent].usage
          IN  /\ usage.total_tokens = usage.input_tokens + usage.output_tokens
              /\ usage.input_tokens = given.input
              /\ usage.output_tokens = given.output)
    /\ [][ /\ agents'[TheAgent].usage.input_tokens >= agents[TheAgent].usage.input_tokens
           /\ agents'[TheAgent].usage.output_tokens >= agents[TheAgent].usage.output_tokens
           /\ agents'[TheAgent].usage.total_tokens >= agents[TheAgent].usage.total_tokens
         ]_vars

\* Two add_usage calls made, one giving input and one giving output tokens.
C23_Witness ==
    /\ result.op = "add_usage"
    /\ agents[TheAgent].usage.input_tokens = 1
    /\ agents[TheAgent].usage.output_tokens = 1
    /\ agents[TheAgent].usage.total_tokens = 2

\* The positions in `evs` of the AgentTerminated events of agent a.
TerminatedAt(evs, a) ==
    { i \in 1..Len(evs) : evs[i].type = "AgentTerminated" /\ evs[i].agent_id = a }

\* C24: a successful terminate_agent(id, reason) call sends exactly one
\* AgentTerminated for every agent of the subtree rooted at id and none for
\* any other agent; a descendant's AgentTerminated comes before its parent's
\* and carries the reason "Parent terminated"; only the one for id carries
\* the caller's reason.
C24_CascadeOrder ==
    [][ (result'.op = "terminate_agent" /\ result'.res = "Ok") =>
          LET id   == result'.agent_id
              tree == Subtree(agents, id)
          IN  /\ \A a \in AgentIds :
                    Cardinality(TerminatedAt(events', a)) = IF a \in tree THEN 1 ELSE 0
              /\ \A a \in tree \ {id} :
                    /\ agents[a].parent_id \in tree
                    /\ \A i \in TerminatedAt(events', a) :
                          /\ events'[i].info = "Parent terminated"
                          /\ \A j \in TerminatedAt(events', agents[a].parent_id) : i < j
              /\ \A i \in TerminatedAt(events', id) :
                    /\ events'[i].info \in Reasons
                    /\ events'[i].info # "Parent terminated" ]_vars

\* terminate_agent was called on an agent with a child and a grandchild:
\* the grandchild's events came first, then the child's, then the agent's.
C24_Witness ==
    /\ result.op = "terminate_agent"
    /\ result.res = "Ok"
    /\ Len(events) = 6
    /\ TerminatedAt(events, 3) = {2}
    /\ TerminatedAt(events, 2) = {4}
    /\ TerminatedAt(events, result.agent_id) = {6}

\* C25: remove_agent(id) on a node returns true, deletes that node and no
\* other, takes id out of its parent's children, clears the root pointer
\* when id was the root and keeps it otherwise, and leaves every other node
\* as it was (the children of id keep parent = Some(id)); on an id that is
\* no node it returns false and leaves the hierarchy unchanged.
C25_RemoveAgentFrame ==
    [][ result'.op = "remove_agent" =>
          LET id    == result'.agent_id
              nodes == hierarchy.nodes
          IN  IF id \in DOMAIN nodes
              THEN /\ result'.res = "true"
                   /\ DOMAIN hierarchy'.nodes = (DOMAIN nodes) \ {id}
                   /\ \A n \in DOMAIN hierarchy'.nodes :
                         /\ hierarchy'.nodes[n].parent = nodes[n].parent
                         /\ hierarchy'.nodes[n].children =
                               IF n = nodes[id].parent
                               THEN SelectSeq(nodes[n].children, LAMBDA x : x # id)
                               ELSE nodes[n].children
                   /\ hierarchy'.root = IF hierarchy.root = id THEN None ELSE hierarchy.root
              ELSE /\ result'.res = "false"
                   /\ hierarchy' = hierarchy ]_vars

\* The root was removed while it had a child: the root pointer is cleared
\* and the child is still a node whose parent is the removed id.
C25_Witness ==
    /\ result.op = "remove_agent"
    /\ result.res = "true"
    /\ hierarchy.root = None
    /\ result.agent_id \notin DOMAIN hierarchy.nodes
    /\ \E n \in DOMAIN hierarchy.nodes : hierarchy.nodes[n].parent = result.agent_id

\* C26: handling ExecApproval, or a command of a variant handle_op has no
\* arm for, returns Ok, sends no event and leaves the set of sessions and
\* every session's agents, hierarchy and current task as they were; no id is
\* handed out.
C26_IgnoredCommands ==
    [][ (Handled("ExecApproval") \/ Handled("Other")) =>
          /\ disp'.last.ret = "Ok"
          /\ disp'.last.events = << >>
          /\ disp'.stream = disp.stream
          /\ DOMAIN disp'.sessions = DOMAIN disp.sessions
          /\ \A x \in DOMAIN disp.sessions :
                /\ disp'.sessions[x].agents = disp.sessions[x].agents
                /\ disp'.sessions[x].hierarchy = disp.sessions[x].hierarchy
                /\ disp'.sessions[x].current_task = disp.sessions[x].current_task
          /\ NoIdAllocated
          /\ disp'.errors = disp.errors ]_vars

\* ExecApproval was handled while a session had a current task.
C26_Witness ==
    /\ disp.last.op = "ExecApproval"
    /\ disp.last.ret = "Ok"
    /\ disp.stream # << >>
    /\ \E x \in DOMAIN disp.sessions :
          /\ disp.sessions[x].current_task # None
          /\ disp.sessions[x].agents # << >>

\* C27: a UserInput command whose handling fails (NoActiveSession or
\* NoOrchestrator) has no side effect: every session's current task is what
\* it was before the command, and no TaskStarted and no AgentMessage is sent
\* for it.
C27_FailedUserInputNoEffect ==
    [][ (Handled("UserInput") /\ disp'.last.ret # "Ok") =>
          /\ disp'.last.ret \in {"NoActiveSession", "NoOrchestrator"}
          /\ DOMAIN disp'.sessions = DOMAIN disp.sessions
          /\ \A x \in DOMAIN disp.sessions :
                disp'.sessions[x].current_task = disp.sessions[x].current_task
          /\ \A i \in 1..Len(disp'.last.events) :
                disp'.last.events[i].type \notin {"TaskStarted", "AgentMessage"} ]_vars

\* C28: with a single session configured, as long as the root agent that
\* ConfigureSession spawned (the one agent of role Orchestrator) is in the
\* session's agent table, that is, no TerminateAgent has named it,
\* Session::orchestrator() returns that agent.
C28_OrchestratorStaysRoot ==
    \A x \in DOMAIN disp.sessions :
        Cardinality(DOMAIN disp.sessions) = 1 =>
            \A a \in DOMAIN disp.sessions[x].agents :
                disp.sessions[x].agents[a].role = "Orchestrator" =>
                    orchestrator(disp.sessions[x]) = a

\* C29: on the event stream every TaskInterrupted{task_id} comes after a
\* TaskStarted with the same task id, and no task id has two TaskInterrupted.
C29_InterruptedOnceAfterStarted ==
    \A i \in 1..Len(disp.stream) :
        disp.stream[i].type = "TaskInterrupted" =>
            /\ \E j \in 1..(i - 1) :
                  /\ disp.stream[j].type = "TaskStarted"
                  /\ disp.stream[j].ref = disp.stream[i].ref
            /\ \A k \in 1..Len(disp.stream) :
                  (disp.stream[k].type = "TaskInterrupted"
                     /\ disp.stream[k].ref = disp.stream[i].ref) => k = i

(* ------------------------ properties of SpecRace ---------------------- *)

\* C30: in every interleaving of concurrent spawn_agent calls, an agent
\* with a max_children cap never has more children than the cap.
C30_CapNeverExceeded ==
    \A a \in DOMAIN agents :
        agents[a].max_children # NoCap =>
            Len(agents[a].children) <= agents[a].max_children

(* ------------------- termination of depth (SpecHier) ------------------ *)

\* C34: depth(id) returns for every id in every hierarchy that add_agent and
\* remove_agent calls can build, re-adds of a node and ids named as their
\* own parent included: the walk along the parent links never comes back
\* to a node it has visited.
C34_DepthTerminates ==
    \A x \in HierIds : depth(hierarchy, x) # Diverges

(* ----------------------- properties of SpecStatus --------------------- *)

\* C32: once every concurrent set_status call on the agent has returned,
\* the status carried by the last AgentStatusChanged event on the stream is
\* the value of the agent's status field.
C32_LastEventIsStatus ==
    ((\A t \in Threads : th[t].pc = "idle") /\ events # << >>) =>
        events[Len(events)].info = agents[TheAgent].status

(* ------------------ properties of SpecLocks, SpecLocksFair ------------ *)

\* The place of a lock in the nesting order: hierarchy, agents, children.
LockRank(l) ==
    CASE l = HierarchyLock -> 1
      [] l = AgentsLock -> 2
      [] OTHER -> 3

\* The locks thread t holds, and those it waits for.
HeldBy(t) == { l \in LockNames : \E h \in locks[l].holders : h[1] = t }

AwaitedBy(t) ==
    { l \in LockNames : \E i \in 1..Len(locks[l].queue) : locks[l].queue[i][1] = t }

\* C33: the calls on one session cannot deadlock. A thread that holds a
\* lock only ever asks for one later in the order hierarchy, agents,
\* children, and every call a thread is in returns: at any time the thread
\* is outside any call or will be.
C33_CallsReturn ==
    /\ [](\A t \in Threads :
            \A held \in HeldBy(t), awaited \in AwaitedBy(t) :
                LockRank(held) < LockRank(awaited))
    /\ \A t \in Threads : []<>(th[t].pc = "idle")

\* A thread holds hierarchy.read() and waits for agents.read() behind the
\* writer of another thread's call.
C33_Witness ==
    \E t \in Threads, u \in Threads :
        /\ u # t
        /\ HierarchyLock \in HeldBy(t)
        /\ Len(locks[AgentsLock].queue) = 2
        /\ locks[AgentsLock].queue[1] = << u, "w" >>
        /\ locks[AgentsLock].queue[2] = << t, "r" >>

\* C31: once a spawn_agent(config, Some(p)) call and a concurrent
\* terminate_agent(p) call have both returned, no agent in the table and no
\* node in the hierarchy has a parent id that is absent from it.
C31_NoOrphanAfterRace ==
    (\A t \in Threads : th[t].pc = "idle") =>
        /\ \A a \in DOMAIN agents :
              agents[a].parent_id # None => agents[a].parent_id \in DOMAIN agents
        /\ \A n \in DOMAIN hierarchy.nodes :
              hierarchy.nodes[n].parent # None =>
                  hierarchy.nodes[n].parent \in DOMAIN hierarchy.nodes

====
